---- MODULE Spec2Model ----
(***************************************************************************)
(* RealtimeAudioHandler (src/modules/audio_handler.py) driven by the       *)
(* callbacks of RealtimeCareApp (src/main.py).                             *)
(*                                                                         *)
(* One asyncio event loop runs every coroutine: a step of the model is the *)
(* code a coroutine runs between two suspension points.  The suspension    *)
(* points are asyncio.sleep (cooldown wait, speaking delay, capture pause),*)
(* waiting for the next websocket message, and websocket.close().          *)
(* websocket.send hands the command to the transport at the call.          *)
(*                                                                         *)
(* Time is counted in whole seconds.  The remote service is the            *)
(* environment: it produces well-formed lifecycle events, one response at  *)
(* a time (response.created, its audio deltas, response.done).             *)
(*                                                                         *)
(* Two further drivers are modelled on their own state: the polling loops  *)
(* of DailyConversation (src/modules/daily_conversation.py) in "daily" and *)
(* the scripted sequence of SafetyChecker (src/modules/safety_checker.py)  *)
(* in "checker".                                                           *)
(***************************************************************************)
EXTENDS Integers, FiniteSets, Sequences, TLC

\* ---------------------------------------------------------------- bounds
MaxTurns == 2      \* responses the remote service creates in a run
MaxCalls == 2      \* _generate_response tasks started in a run
MaxTicks == 2      \* seconds that pass in a run
MaxChunks == 2     \* audio chunks and messages counted in a DailyConversation run
MaxResponses == 4  \* user transcripts delivered to a SafetyChecker
MaxRuns == 2       \* safety checks started on one SafetyChecker
MaxChecks == 4     \* entries of TimeAnnouncementScheduler.scheduled_checks
MaxHandlers == 2   \* awaited calls of SafetyCheckManager._handle_scheduled_check
MaxThreads == 3    \* threads created by TimeAnnouncementScheduler.start
MaxSaves == 3      \* conversations saved with ConversationDatabase.save_conversation
MaxDays == 2       \* days that pass while the database file exists

\* ------------------------------------------------------ program constants
CooldownSeconds == 2      \* response.done: time.time() + 2.0
RateLimitSeconds == 3     \* _trigger_response_after_speech: < 3.0
speak_delay_seconds == 1  \* __init__: self.speak_delay_seconds = 1.0
None == 0                 \* current_response_id: Optional[str] = None
ScriptSteps == 5          \* SafetyChecker: the five conversation_steps
RecentWindow == 3         \* _detect_emergency: self.user_responses[-3:]
HistoryLimit == 20        \* generate_response: conversation_history[-20:]
LowScoreTenths == 5       \* should_notify: overall_score < -0.5, tenths below 0

\* time.time() at the start of a run: far from the 0 that __init__ stores
\* in last_speech_time and response_cooldown_until.
Epoch == RateLimitSeconds + CooldownSeconds
MaxNow == Epoch + MaxTicks

Calls == 1..MaxCalls

VARIABLES
  \* RealtimeAudioHandler fields
  websocket,                 \* "none" (None) | "open" | "closed" (object kept, connection closed)
  is_connected,
  is_recording,
  input_stream,              \* TRUE while a stream object is held
  output_stream,
  response_in_progress,
  awaiting_audio_delay,
  response_cooldown_until,
  current_response_id,
  suppress_audio_output,
  last_speech_time,
  \* coroutines
  rx,                        \* stream_audio_conversation: [pc, wake]
  cap,                       \* _capture_and_send_audio task
  gen,                       \* queue_response/_generate_response tasks, by call number
  stopper,                   \* stop_conversation task created by on_transcription
  running,                   \* RealtimeCareApp.running
  \* environment
  now,                       \* time.time()
  srv,                       \* remote service: [open, id, next, canceled]
  \* what the last step did: the event it handled, on the transport and on
  \* the output stream
  step,                      \* [event, sent, play, cancel]
  burst,                     \* consecutive _generate_response calls that sent at once
  \* RealtimeCareApp.run: [pc, finalized]
  app,
  \* DailyConversation: [websocket, is_connected, conversation_active, main,
  \* response_task, audio_task, chunks, heard]
  daily,
  \* SafetyChecker: [pc, i, user_responses, ai_responses, current_transcript,
  \* base, waited, status, result, seen, arrived, total, runs]
  checker,
  \* TimeAnnouncement: [announcement_made, op, count, returned]
  announcer,
  \* TimeAnnouncementScheduler: [scheduled_checks, jobs, executed,
  \* on_scheduled_check, running, scheduler_thread, threads]
  sched,
  \* SafetyCheckManager with its scheduler
  mgr,
  \* SimpleVoiceChat: [conversation_history, returned]
  chat,
  \* the sqlite file at Config.DATABASE_PATH and the ConversationDatabase
  \* instances of the running process
  db,
  \* EmailNotifier.should_notify: the last call and what it returned
  notifier,
  \* RealtimeCareApp._finalize_if_needed: what the collaborators were asked
  fin

handler == <<websocket, is_connected, is_recording, input_stream, output_stream,
             response_in_progress, awaiting_audio_delay, response_cooldown_until,
             current_response_id, suppress_audio_output, last_speech_time>>
turnState == <<response_in_progress, awaiting_audio_delay, response_cooldown_until,
               current_response_id, suppress_audio_output>>
tasks == <<rx, cap, gen, stopper, running>>
timers == <<announcer, sched>>
others == <<mgr, chat, db, notifier, fin>>
apps == <<app, daily, checker, timers, others>>
vars == <<handler, tasks, now, srv, step, burst, apps>>

NoTask == [pc |-> "none", wake |-> 0, deadline |-> 0, win |-> 0]
Quiet == [event |-> "none", sent |-> "none", play |-> "none", cancel |-> FALSE]

\* A list field of a ConversationResult: a reference to a list of its own
\* (ref "copy", the elements in val) or to the live list it was built from.
\* A field that holds the live list itself.
AliasOf(log) == [ref |-> "live", val |-> log]

\* "self.user_responses.copy()"
CopyOf(log) == [ref |-> "copy", val |-> log]

\* The elements read through a list field.
Deref(field, live) == IF field.ref = "live" THEN live ELSE field.val

\* A follow-up flag raised for emergencies only.
NeedsFollowupOnEmergency(status) == status = "EMERGENCY"

\* "needs_followup = safety_status in [NEEDS_ATTENTION, EMERGENCY]"
NeedsFollowup(status) == status \in {"NEEDS_ATTENTION", "EMERGENCY"}

\* No object of a class exists in the process.
Absent == "absent"

\* No ConversationResult built yet.
NoResult == [built |-> FALSE]

\* A log that takes a new text at its front.
LoggedFirst(log, text) == <<text>> \o log

\* "self.user_messages.append(text)", "self.user_responses.append(text)"
Logged(log, text) == Append(log, text)

\* TimeAnnouncement.__init__
NoAnnouncer == [announcement_made |-> FALSE, op |-> "none", count |-> 0,
                returned |-> [kind |-> "never"]]

\* Config.SAFETY_CHECK_TIMES, each with the default user.
CheckKeys == {"10:00", "15:00", "19:00"}

\* ScheduledCheck(time, user_name): enabled, never executed.
ScheduledCheck(key) == [key |-> key, enabled |-> TRUE, last_executed |-> FALSE]

\* TimeAnnouncementScheduler.__init__: _setup_default_schedule adds the
\* default checks and registers a job for each.
NoSchedule ==
  [scheduled_checks |-> <<ScheduledCheck("10:00"), ScheduledCheck("15:00"),
                          ScheduledCheck("19:00")>>,
   jobs |-> [key \in CheckKeys |-> 1],
   executed |-> "none",
   on_scheduled_check |-> "none",
   running |-> FALSE,
   scheduler_thread |-> 0,
   threads |-> <<>>]

\* The handler after __init__, RealtimeCareApp after __init__, the clock and
\* the remote service.
InitHandler ==
  /\ websocket = "none"
  /\ is_connected = FALSE
  /\ is_recording = FALSE
  /\ input_stream = FALSE
  /\ output_stream = FALSE
  /\ response_in_progress = FALSE
  /\ awaiting_audio_delay = FALSE
  /\ response_cooldown_until = 0
  /\ current_response_id = None
  /\ suppress_audio_output = FALSE
  /\ last_speech_time = 0
  /\ rx = [pc |-> "new", wake |-> 0]
  /\ cap = "off"
  /\ gen = [i \in Calls |-> NoTask]
  /\ stopper = "none"
  /\ running = FALSE
  /\ now = Epoch
  /\ srv = [open |-> 0, id |-> None, next |-> 1, canceled |-> FALSE]
  /\ step = Quiet
  /\ burst = 0
  /\ app = [pc |-> "new", finalized |-> 0, user_messages |-> <<>>,
            ai_messages |-> <<>>, result |-> NoResult]

\* DailyConversation.__init__
NoDaily == [websocket |-> "none", is_connected |-> FALSE, conversation_active |-> TRUE,
            main |-> "new", response_task |-> "none", audio_task |-> "none",
            chunks |-> 0, heard |-> 0]

\* SafetyChecker.__init__
NoChecker == [pc |-> "new", i |-> 0, user_responses |-> <<>>, ai_responses |-> <<>>,
              current_transcript |-> "", base |-> 0, waited |-> 0,
              status |-> "none", result |-> NoResult, seen |-> 0,
              arrived |-> <<>>, total |-> 0, runs |-> 1]

\* None of the objects of the other drivers is constructed.
NoOthers ==
  /\ mgr = Absent
  /\ chat = Absent
  /\ db = Absent
  /\ notifier = Absent
  /\ fin = Absent

\* A process runs one driver: main.py constructs a RealtimeCareApp and no
\* object of the other classes.
Init ==
  /\ InitHandler
  /\ daily = Absent
  /\ checker = Absent
  /\ announcer = Absent
  /\ sched = Absent
  /\ NoOthers

\* A process that constructs a DailyConversation.
InitDaily ==
  /\ InitHandler
  /\ daily = NoDaily
  /\ checker = Absent
  /\ announcer = Absent
  /\ sched = Absent
  /\ NoOthers

\* A process that constructs a SafetyChecker.
InitSafety ==
  /\ InitHandler
  /\ daily = Absent
  /\ checker = NoChecker
  /\ announcer = Absent
  /\ sched = Absent
  /\ NoOthers

\* A process that constructs a TimeAnnouncement.
InitAnnounce ==
  /\ InitHandler
  /\ daily = Absent
  /\ checker = Absent
  /\ announcer = NoAnnouncer
  /\ sched = Absent
  /\ NoOthers

\* A process that constructs a TimeAnnouncementScheduler.
InitSchedule ==
  /\ InitHandler
  /\ daily = Absent
  /\ checker = Absent
  /\ announcer = Absent
  /\ sched = NoSchedule
  /\ NoOthers

\* ------------------------------------------------------------- transport
\* A transport on which every send goes out.
CanSendAlways == TRUE

\* websocket.send succeeds on an open connection; on None it raises
\* AttributeError and on a closed connection ConnectionClosed, both caught by
\* the caller's "except Exception".
CanSend == websocket = "open"

\* A step that sent the command of operation "by" and nothing else.
Sent(by) == [Quiet EXCEPT !.sent = by]

\* The operations whose command is response.create.
Creators == {"generate", "trigger", "fallback", "text", "greeting"}

\* A turn is active from the handling of its response.created to the
\* handling of its response.done.
TurnActive == srv.open # 0

\* response.done events handled so far.
Dones == srv.next - 1 - (IF srv.open # 0 THEN 1 ELSE 0)

\* ------------------------------------------------------ session lifecycle
\* start_realtime_session: connect and send session.update, or fail.
start_realtime_session(ok) ==
  /\ rx.pc = "new"
  /\ IF ok
       THEN /\ websocket' = "open"
            /\ is_connected' = TRUE
            /\ step' = Sent("session")
            /\ rx' = [rx EXCEPT !.pc = "off"]
       ELSE /\ rx' = [rx EXCEPT !.pc = "failed"]
            /\ step' = Quiet
            /\ UNCHANGED <<websocket, is_connected>>
  /\ burst' = 0
  /\ UNCHANGED <<is_recording, input_stream, output_stream, turnState, last_speech_time,
                 cap, gen, stopper, running, now, srv>>
  /\ UNCHANGED apps

\* stream_audio_conversation up to its first wait for a message
\* (RealtimeCareApp.run appends its greeting to ai_messages and sets running
\* just before the call).
stream_audio_conversation ==
  /\ rx.pc = "off"
  /\ is_connected
  /\ input_stream' = TRUE
  /\ output_stream' = TRUE
  /\ cap' = "ready"
  /\ running' = TRUE
  /\ rx' = [rx EXCEPT !.pc = "recv"]
  /\ step' = Quiet
  /\ burst' = 0
  /\ UNCHANGED <<websocket, is_connected, is_recording, turnState, last_speech_time,
                 gen, stopper, now, srv>>
  /\ app' = [app EXCEPT !.pc = "streaming",
                         !.ai_messages = Append(app.ai_messages, "greeting")]
  /\ UNCHANGED <<daily, checker, timers, others>>

\* stop_conversation up to "await self.websocket.close()".
StopHead ==
  /\ is_connected' = FALSE
  /\ is_recording' = FALSE
  /\ input_stream' = FALSE
  /\ output_stream' = FALSE
  /\ websocket' = IF websocket = "none" THEN "none" ELSE "closed"

\* A stop_conversation that returns without "self.websocket = None".
StopTailSkipped ==
  /\ UNCHANGED websocket

\* stop_conversation after the close returned.
StopTail ==
  /\ websocket' = "none"

\* What the head of stop_conversation did: the event of the step is "close"
\* when it found the audio streams open and closed them.
Closing ==
  [Quiet EXCEPT !.event = IF input_stream \/ output_stream THEN "close" ELSE "none"]

\* The remote service or the network closes the connection.
RemoteClose ==
  /\ websocket = "open"
  /\ websocket' = "closed"
  /\ step' = Quiet
  /\ burst' = 0
  /\ UNCHANGED <<is_connected, is_recording, input_stream, output_stream, turnState,
                 last_speech_time, tasks, now, srv>>
  /\ UNCHANGED apps

\* A "finally" that leaves the capture task alone.
CaptureNotCancelled == cap

\* "audio_task.cancel(); await audio_task": the capture task is over.
CaptureAfterCancel == IF cap = "off" THEN "off" ELSE "done"

\* The end of stream_audio_conversation: the capture task is canceled and
\* stop_conversation is entered.
StreamEnds ==
  /\ StopHead
  /\ cap' = CaptureAfterCancel
  /\ rx' = [pc |-> IF websocket = "none" THEN "done" ELSE "closing", wake |-> 0]

\* The receive loop ends (connection closed, or is_connected found false).
StreamFinally ==
  /\ rx.pc = "recv"
  /\ websocket # "open" \/ ~is_connected
  /\ StreamEnds
  /\ step' = Closing
  /\ burst' = 0
  /\ UNCHANGED <<turnState, last_speech_time, gen, stopper, running, now, srv>>
  /\ UNCHANGED apps

\* The task that runs stream_audio_conversation is cancelled while it waits
\* for a message or sleeps the speaking delay (SafetyChecker:
\* conversation_task.cancel()): CancelledError passes every
\* "except Exception" and runs both "finally" blocks.
StreamCancel ==
  /\ rx.pc \in {"recv", "delay"}
  /\ StreamEnds
  /\ step' = Closing
  /\ burst' = 0
  /\ UNCHANGED <<turnState, last_speech_time, gen, stopper, running, now, srv>>
  /\ UNCHANGED apps

StreamStopped ==
  /\ rx.pc = "closing"
  /\ StopTail
  /\ rx' = [rx EXCEPT !.pc = "done"]
  /\ step' = Quiet
  /\ burst' = 0
  /\ UNCHANGED <<is_connected, is_recording, input_stream, output_stream, turnState,
                 last_speech_time, cap, gen, stopper, running, now, srv>>
  /\ UNCHANGED apps

\* The stop_conversation task that on_transcription creates for an end command.
StopTaskStart ==
  /\ stopper = "ready"
  /\ StopHead
  /\ stopper' = IF websocket = "none" THEN "done" ELSE "closing"
  /\ step' = Closing
  /\ burst' = 0
  /\ UNCHANGED <<turnState, last_speech_time, rx, cap, gen, running, now, srv>>
  /\ UNCHANGED apps

StopTaskEnd ==
  /\ stopper = "closing"
  /\ StopTail
  /\ stopper' = "done"
  /\ step' = Quiet
  /\ burst' = 0
  /\ UNCHANGED <<is_connected, is_recording, input_stream, output_stream, turnState,
                 last_speech_time, rx, cap, gen, running, now, srv>>
  /\ UNCHANGED apps

\* ----------------------------------------------------------- capture task
\* _capture_and_send_audio: first run, then one loop iteration per step.
CaptureStart ==
  /\ cap = "ready"
  /\ cap' = "running"
  /\ is_recording' = TRUE
  /\ step' = Quiet
  /\ burst' = 0
  /\ UNCHANGED <<websocket, is_connected, input_stream, output_stream, turnState,
                 last_speech_time, rx, gen, stopper, running, now, srv>>
  /\ UNCHANGED apps

\* Sleeps that hold the event loop: no other task runs during the speaking
\* delay or the cooldown wait.
LoopBlockedBySleep == rx.pc = "delay" \/ \E i \in Calls : gen[i].pc = "sleeping"

\* The speaking delay and the cooldown wait are "await asyncio.sleep": they
\* suspend their own task and the event loop runs the others.
LoopBlocked == FALSE

\* One iteration of the loop: the read; an empty chunk is skipped; a chunk is
\* sent as one input_audio_buffer.append, and a send that raises ends the
\* loop.  The event of the step is "chunk" when a non-empty chunk was read.
CaptureChunk(empty) ==
  /\ cap = "running"
  /\ ~LoopBlocked
  /\ IF is_connected /\ is_recording /\ input_stream /\ (empty \/ CanSend)
       THEN /\ step' = IF empty THEN Quiet
                       ELSE [Sent("append") EXCEPT !.event = "chunk"]
            /\ UNCHANGED <<cap, is_recording>>
       ELSE /\ cap' = "done"
            /\ is_recording' = FALSE
            /\ step' = IF is_connected /\ is_recording /\ input_stream /\ ~empty
                         THEN [Quiet EXCEPT !.event = "chunk"]
                         ELSE Quiet
  /\ burst' = 0
  /\ UNCHANGED <<websocket, is_connected, input_stream, output_stream, turnState,
                 last_speech_time, rx, gen, stopper, running, now, srv>>
  /\ UNCHANGED apps

\* ------------------------------------------------- outbound operations
\* A wait that ends one second before the cooldown does.
wait_duration_short(t, until) == until - t - 1

\* wait_duration = self.response_cooldown_until - now
wait_duration(t, until) == until - t

\* A _generate_response without the check for a response in progress.
GenRejectsNever == FALSE

\* "if self.response_in_progress: return" at the head of _generate_response.
GenRejects == response_in_progress

\* _generate_response, from the call to the sleep or the send.
\* gen[i].win is the number of response.done handled before the call.
GenStart(i) ==
  /\ gen[i].pc = "ready"
  /\ IF GenRejects
       THEN /\ gen' = [gen EXCEPT ![i].pc = "rejected"]
            /\ step' = Quiet
            /\ burst' = 0
       ELSE IF now < response_cooldown_until
         THEN /\ gen' = [gen EXCEPT ![i] = [pc |-> "sleeping",
                           wake |-> now + wait_duration(now, response_cooldown_until),
                           deadline |-> response_cooldown_until,
                           win |-> Dones]]
              /\ step' = Quiet
              /\ burst' = 0
         ELSE /\ gen' = [gen EXCEPT ![i].pc = IF CanSend THEN "sent" ELSE "failed",
                                    ![i].win = IF CanSend THEN Dones ELSE 0]
              /\ step' = IF CanSend THEN Sent("generate") ELSE Quiet
              /\ burst' = IF CanSend THEN burst + 1 ELSE 0
  /\ UNCHANGED <<handler, rx, cap, stopper, running, now, srv>>
  /\ UNCHANGED apps

\* _generate_response after the cooldown sleep: the send.
GenWake(i) ==
  /\ gen[i].pc = "sleeping"
  /\ now >= gen[i].wake
  /\ gen' = [gen EXCEPT ![i] = [pc |-> IF CanSend THEN "sentLate" ELSE "failed",
                                wake |-> 0, deadline |-> 0,
                                win |-> IF CanSend THEN gen[i].win ELSE 0]]
  /\ step' = IF CanSend THEN Sent("generate") ELSE Quiet
  /\ burst' = 0
  /\ UNCHANGED <<handler, rx, cap, stopper, running, now, srv>>
  /\ UNCHANGED apps

_trigger_response_after_speech ==
  /\ IF response_in_progress \/ now - last_speech_time < RateLimitSeconds
       THEN /\ step' = Quiet
            /\ UNCHANGED last_speech_time
       ELSE /\ last_speech_time' = now
            /\ step' = IF CanSend THEN Sent("trigger") ELSE Quiet
  /\ burst' = 0
  /\ UNCHANGED <<websocket, is_connected, is_recording, input_stream, output_stream,
                 turnState, tasks, now, srv>>
  /\ UNCHANGED apps

\* send_text_message: conversation.item.create, then response.create.
send_text_message ==
  /\ step' = IF is_connected /\ CanSend THEN Sent("text") ELSE Quiet
  /\ burst' = 0
  /\ UNCHANGED <<handler, tasks, now, srv>>
  /\ UNCHANGED apps

generate_initial_greeting ==
  /\ step' = IF CanSend THEN Sent("greeting") ELSE Quiet
  /\ burst' = 0
  /\ UNCHANGED <<handler, tasks, now, srv>>
  /\ UNCHANGED apps

\* "if not self.response_in_progress and not self.current_response_id: return"
NothingToCancel == ~response_in_progress /\ current_response_id = None

\* srv.canceled records that the call found a turn active.
_cancel_active_response ==
  /\ srv' = [srv EXCEPT !.canceled = srv.canceled \/ TurnActive]
  /\ IF NothingToCancel
       THEN /\ step' = [Quiet EXCEPT !.cancel = TRUE]
            /\ UNCHANGED <<suppress_audio_output, response_in_progress, awaiting_audio_delay>>
       ELSE /\ suppress_audio_output' = TRUE
            /\ IF current_response_id # None /\ ~CanSend
                 THEN /\ step' = [Quiet EXCEPT !.cancel = TRUE]
                      /\ UNCHANGED <<response_in_progress, awaiting_audio_delay>>
                 ELSE /\ step' = [Quiet EXCEPT !.cancel = TRUE,
                                    !.sent = IF current_response_id # None
                                               THEN "cancel" ELSE "none"]
                      /\ response_in_progress' = FALSE
                      /\ awaiting_audio_delay' = FALSE
  /\ burst' = 0
  /\ UNCHANGED <<websocket, is_connected, is_recording, input_stream, output_stream,
                 response_cooldown_until, current_response_id, last_speech_time,
                 tasks, now>>
  /\ UNCHANGED apps

\* ------------------------------------------------------- inbound events
\* The receive loop takes the next message from an open connection.
Receiving == rx.pc = "recv" /\ websocket = "open"

\* A _play_audio_delta that does not look at suppress_audio_output.
PlayedUnsuppressed ==
  [Quiet EXCEPT !.play = IF output_stream THEN "write" ELSE "nostream"]

\* The end of _play_audio_delta: skip when suppressed, else write.
Played ==
  [Quiet EXCEPT !.play = IF suppress_audio_output THEN "skip"
                         ELSE IF output_stream THEN "write" ELSE "nostream"]

\* session.created, speech_stopped, response.audio_transcript.delta, error,
\* unknown types, an empty transcript, an empty delta: logged only.
OnLoggedOnly ==
  /\ Receiving
  /\ step' = Quiet
  /\ burst' = 0
  /\ UNCHANGED <<handler, tasks, now, srv>>
  /\ UNCHANGED apps

\* An inbound message that makes the code raise.  "json": json.loads
\* raises in the receive loop; "payload": the decoded value is no object and
\* data.get raises before the "try" of _handle_api_response; both leave the
\* loop through "except Exception" of stream_audio_conversation.  "callback":
\* a branch or callback raises inside the "try" and is logged there.
OnMalformed(kind) ==
  /\ Receiving
  /\ IF kind = "callback"
       THEN UNCHANGED <<handler, rx, cap>>
       ELSE StreamEnds /\ UNCHANGED <<turnState, last_speech_time>>
  /\ step' = [Quiet EXCEPT !.event = kind]
  /\ burst' = 0
  /\ UNCHANGED <<gen, stopper, running, now, srv>>
  /\ UNCHANGED apps

\* A speech_started branch that silences the response in progress (barge-in).
SpeechStartedBargeIn == suppress_audio_output \/ response_in_progress

\* The speech_started branch assigns no field of the turn:
\* suppress_audio_output is what it was.
SpeechStartedSuppress == suppress_audio_output

\* input_audio_buffer.speech_started: "if self.response_in_progress: return",
\* else last_speech_time = time.time().
OnSpeechStarted ==
  /\ Receiving
  /\ last_speech_time' = IF response_in_progress THEN last_speech_time ELSE now
  /\ suppress_audio_output' = SpeechStartedSuppress
  /\ step' = [Quiet EXCEPT !.event = "speech_started"]
  /\ burst' = 0
  /\ UNCHANGED <<websocket, is_connected, is_recording, input_stream, output_stream,
                 response_in_progress, awaiting_audio_delay, response_cooldown_until,
                 current_response_id, tasks, now, srv>>
  /\ UNCHANGED apps

\* An _is_end_command that finds no end keyword.
_is_end_command_never(text) == FALSE

\* RealtimeCareApp._is_end_command, on the transcript kinds.
_is_end_command(text) == text = "end"

\* transcription.completed with a non-empty transcript: on_transcription of
\* RealtimeCareApp appends it to user_messages and creates a
\* stop_conversation task or a queue_response task.
OnTranscription(text) ==
  /\ Receiving
  /\ IF _is_end_command(text)
       THEN /\ stopper = "none"
            /\ running' = FALSE
            /\ stopper' = "ready"
            /\ UNCHANGED gen
       ELSE /\ \E i \in Calls :
                 /\ gen[i].pc = "none"
                 /\ \A j \in Calls : j < i => gen[j].pc # "none"
                 /\ gen' = [gen EXCEPT ![i].pc = "ready"]
            /\ UNCHANGED <<running, stopper>>
  /\ step' = [Quiet EXCEPT !.event = text]
  /\ burst' = 0
  /\ UNCHANGED <<handler, rx, cap, now, srv>>
  /\ app' = [app EXCEPT !.user_messages = Logged(app.user_messages, text)]
  /\ UNCHANGED <<daily, checker, timers, others>>

\* A fallback that is never skipped.
FallbackSkippedNever == FALSE

\* _generate_fallback_response: "if self.response_in_progress: return"
FallbackSkipped == response_in_progress

\* transcription.failed: _generate_fallback_response.
OnTranscriptionFailed ==
  /\ Receiving
  /\ step' = [event |-> "failed",
              sent |-> IF FallbackSkipped \/ ~CanSend THEN "none" ELSE "fallback",
              play |-> "none", cancel |-> FALSE]
  /\ burst' = 0
  /\ UNCHANGED <<handler, tasks, now, srv>>
  /\ UNCHANGED apps

\* A response.created handler that keeps the id it had.
CreatedIdStale(id) == current_response_id

\* self.current_response_id = data.get("response", {}).get("id")
CreatedId(id) == id

\* response.created: the remote service opens its next response; the
\* event carries the response id or none.
OnResponseCreated(hasId) ==
  /\ Receiving
  /\ srv.open = 0
  /\ srv.next <= MaxTurns
  /\ srv' = [open |-> srv.next, id |-> IF hasId THEN srv.next ELSE None,
             next |-> srv.next + 1, canceled |-> FALSE]
  /\ response_in_progress' = TRUE
  /\ awaiting_audio_delay' = TRUE
  /\ suppress_audio_output' = FALSE
  /\ current_response_id' = CreatedId(IF hasId THEN srv.next ELSE None)
  /\ step' = Quiet
  /\ burst' = 0
  /\ UNCHANGED <<websocket, is_connected, is_recording, input_stream, output_stream,
                 response_cooldown_until, last_speech_time, tasks, now>>
  /\ UNCHANGED apps

\* response.audio.delta of the open response: _play_audio_delta up to the
\* speaking delay, or to its end.
\* A speaking delay that does not wait.
DelayWakeAtOnce(t) == t

\* await asyncio.sleep(self.speak_delay_seconds): the earliest time it returns.
DelayWake(t) == t + speak_delay_seconds

OnAudioDelta ==
  /\ Receiving
  /\ srv.open # 0
  /\ awaiting_audio_delay => DelayWake(now) <= MaxNow
  /\ IF awaiting_audio_delay
       THEN /\ rx' = [pc |-> "delay", wake |-> DelayWake(now)]
            /\ step' = [Quiet EXCEPT !.event = "delta"]
       ELSE /\ step' = [Played EXCEPT !.event = "delta"]
            /\ UNCHANGED rx
  /\ burst' = 0
  /\ UNCHANGED <<handler, cap, gen, stopper, running, now, srv>>
  /\ UNCHANGED apps

\* _play_audio_delta after the speaking delay.
DelayElapsed ==
  /\ rx.pc = "delay"
  /\ now >= rx.wake
  /\ awaiting_audio_delay' = FALSE
  /\ step' = Played
  /\ rx' = [pc |-> "recv", wake |-> 0]
  /\ burst' = 0
  /\ UNCHANGED <<websocket, is_connected, is_recording, input_stream, output_stream,
                 response_in_progress, response_cooldown_until, current_response_id,
                 suppress_audio_output, last_speech_time, cap, gen, stopper, running,
                 now, srv>>
  /\ UNCHANGED apps

\* A task that has sent is kept as such until the next response.done.
Retired(t) == IF t.pc \in {"sent", "sentLate"} THEN [NoTask EXCEPT !.pc = "over"] ELSE t

\* The cooldown of the other configured profile (3.0 s).
CooldownAfterProfile(t) == t + RateLimitSeconds

\* self.response_cooldown_until = time.time() + 2.0
CooldownAfter(t) == t + CooldownSeconds

OnResponseDone ==
  /\ Receiving
  /\ srv.open # 0
  /\ srv' = [srv EXCEPT !.open = 0, !.id = None, !.canceled = FALSE]
  /\ response_in_progress' = FALSE
  /\ response_cooldown_until' = CooldownAfter(now)
  /\ current_response_id' = None
  /\ suppress_audio_output' = FALSE
  /\ gen' = [i \in Calls |-> Retired(gen[i])]
  /\ step' = Quiet
  /\ burst' = 0
  /\ UNCHANGED <<websocket, is_connected, is_recording, input_stream, output_stream,
                 awaiting_audio_delay, last_speech_time, rx, cap, stopper, running, now>>
  /\ UNCHANGED apps

\* ------------------------------------------------------ RealtimeCareApp.run
\* RealtimeCareApp._determine_safety_status: the keywords are looked for in
\* all user messages.
care_determine_safety_status(ms) ==
  IF ms = <<>> THEN "UNKNOWN"
  ELSE IF \E k \in 1..Len(ms) : ms[k] = "emg" THEN "EMERGENCY"
  ELSE IF \E k \in 1..Len(ms) : ms[k] = "neg" THEN "NEEDS_ATTENTION"
  ELSE "SAFE"

\* RealtimeCareApp._calculate_emotion_score: up to ten messages divide by 1
\* and the score is cut at -1.
care_calculate_emotion_score(ms) ==
  IF \E k \in 1..Len(ms) : ms[k] = "neg" THEN -1 ELSE 0

care_extract_keywords(ms) ==
  IF \E k \in 1..Len(ms) : ms[k] = "neg" THEN {"neg"} ELSE {}

care_generate_summary(ms) ==
  IF ms = <<>> THEN <<0, "none">>
  ELSE <<Len(ms), IF care_calculate_emotion_score(ms) < 0 THEN "caution" ELSE "normal">>

_build_conversation_result(a) ==
  [built |-> TRUE,
   user_responses |-> CopyOf(a.user_messages),
   ai_responses |-> CopyOf(a.ai_messages),
   safety_status |-> care_determine_safety_status(a.user_messages),
   needs_followup |-> NeedsFollowup(care_determine_safety_status(a.user_messages)),
   emotion_score |-> care_calculate_emotion_score(a.user_messages),
   keywords |-> care_extract_keywords(a.user_messages),
   summary |-> care_generate_summary(a.user_messages)]

\* _finalize_if_needed: nothing is built when no user message and at most
\* the greeting were recorded.
_finalize_if_needed(a) ==
  IF a.user_messages = <<>> /\ Len(a.ai_messages) <= 1
    THEN a.result
    ELSE _build_conversation_result(a)

\* A "finally" that runs the finalization twice.
FinalizedTwice(n) == n + 2

\* "await self._finalize_if_needed()": one more call.
FinalizedAfter(n) == n + 1

\* run() after stream_audio_conversation returned: "break", then the
\* "finally" block: stop_conversation (the websocket is None by then, so it
\* does not suspend) and _finalize_if_needed.
RunFinally ==
  /\ app.pc = "streaming"
  /\ rx.pc = "done"
  /\ StopHead
  /\ app' = [app EXCEPT !.pc = "finished",
                         !.finalized = FinalizedAfter(app.finalized),
                         !.result = _finalize_if_needed(app)]
  /\ step' = Quiet
  /\ burst' = 0
  /\ UNCHANGED <<turnState, last_speech_time, tasks, now, srv, daily, checker, timers, others>>

\* run() after start_realtime_session returned False: "return", before the
\* "try" whose "finally" finalizes.
RunAborted ==
  /\ app.pc = "new"
  /\ rx.pc = "failed"
  /\ app' = [app EXCEPT !.pc = "returned"]
  /\ step' = Quiet
  /\ burst' = 0
  /\ UNCHANGED <<handler, tasks, now, srv, daily, checker, timers, others>>

\* ----------------------------------------------------------------- time
Tick ==
  /\ now < MaxNow
  /\ now' = now + 1
  /\ step' = Quiet
  /\ burst' = 0
  /\ UNCHANGED <<handler, tasks, srv>>
  /\ UNCHANGED apps

\* The handler with its session, the remote service and the clock, without
\* the operations that assign no field of the handler and only send or log.
NextCore ==
  \/ \E ok \in BOOLEAN : start_realtime_session(ok)
  \/ stream_audio_conversation
  \/ RemoteClose
  \/ StreamFinally
  \/ StreamStopped
  \/ \E i \in Calls : GenStart(i)
  \/ \E i \in Calls : GenWake(i)
  \/ _trigger_response_after_speech
  \/ _cancel_active_response
  \/ OnSpeechStarted
  \/ OnTranscription("talk")
  \/ \E hasId \in BOOLEAN : OnResponseCreated(hasId)
  \/ OnAudioDelta
  \/ DelayElapsed
  \/ OnResponseDone
  \/ Tick

SpecCore == Init /\ [][NextCore]_vars

\* The handler with its session, the remote service and the clock.
Next ==
  \/ NextCore
  \/ send_text_message
  \/ generate_initial_greeting
  \/ OnLoggedOnly
  \/ OnTranscriptionFailed

Spec == Init /\ [][Next]_vars

\* The session with the responses of the remote service and the recognition
\* failures it reports.
NextFallback ==
  \/ \E ok \in BOOLEAN : start_realtime_session(ok)
  \/ stream_audio_conversation
  \/ RemoteClose
  \/ StreamFinally
  \/ StreamStopped
  \/ _cancel_active_response
  \/ OnTranscriptionFailed
  \/ \E hasId \in BOOLEAN : OnResponseCreated(hasId)
  \/ OnAudioDelta
  \/ DelayElapsed
  \/ OnResponseDone
  \/ Tick

SpecFallback == Init /\ [][NextFallback]_vars

\* The session with its capture task, one queued response request and the
\* responses of the remote service.
NextCapture ==
  \/ \E ok \in BOOLEAN : start_realtime_session(ok)
  \/ stream_audio_conversation
  \/ CaptureStart
  \/ \E empty \in BOOLEAN : CaptureChunk(empty)
  \/ RemoteClose
  \/ StreamFinally
  \/ StreamStopped
  \/ gen[1].pc = "none" /\ OnTranscription("talk")
  \/ GenStart(1)
  \/ GenWake(1)
  \/ \E hasId \in BOOLEAN : OnResponseCreated(hasId)
  \/ OnAudioDelta
  \/ DelayElapsed
  \/ OnResponseDone
  \/ Tick

SpecCapture == Init /\ [][NextCapture]_vars

\* The session with its capture task, one queued response request, the end
\* command and the stop_conversation calls of the stop task and of the end
\* of the stream.  A transcript is of audio that the capture loop has sent.
NextStop ==
  \/ \E ok \in BOOLEAN : start_realtime_session(ok)
  \/ stream_audio_conversation
  \/ CaptureStart
  \/ \E empty \in BOOLEAN : CaptureChunk(empty)
  \/ RemoteClose
  \/ StreamFinally
  \/ StreamStopped
  \/ cap # "ready" /\ gen[1].pc = "none" /\ OnTranscription("talk")
  \/ cap # "ready" /\ OnTranscription("end")
  \/ StopTaskStart
  \/ StopTaskEnd
  \/ GenStart(1)
  \/ GenWake(1)
  \/ \E hasId \in BOOLEAN : OnResponseCreated(hasId)
  \/ OnAudioDelta
  \/ DelayElapsed
  \/ OnResponseDone
  \/ Tick

SpecStop == Init /\ [][NextStop]_vars

\* The same with the capture task and the end command of RealtimeCareApp.
NextSession ==
  \/ Next
  \/ CaptureStart
  \/ \E empty \in BOOLEAN : CaptureChunk(empty)
  \/ OnTranscription("end")
  \/ StopTaskStart
  \/ StopTaskEnd

SpecSession == Init /\ [][NextSession]_vars

\* The session from its start to its close, with the capture task, without
\* the response requests.
NextClose ==
  \/ \E ok \in BOOLEAN : start_realtime_session(ok)
  \/ stream_audio_conversation
  \/ CaptureStart
  \/ \E empty \in BOOLEAN : CaptureChunk(empty)
  \/ RemoteClose
  \/ StreamFinally
  \/ StreamCancel
  \/ StreamStopped
  \/ OnTranscription("end")
  \/ StopTaskStart
  \/ StopTaskEnd
  \/ OnLoggedOnly
  \/ \E kind \in {"json", "payload", "callback"} : OnMalformed(kind)
  \/ \E hasId \in BOOLEAN : OnResponseCreated(hasId)
  \/ OnAudioDelta
  \/ DelayElapsed
  \/ OnResponseDone
  \/ Tick

SpecClose == Init /\ [][NextClose]_vars

\* RealtimeCareApp.run in its free-running mode: transcripts start response
\* requests or the stop.
NextApp ==
  \/ \E ok \in BOOLEAN : start_realtime_session(ok)
  \/ stream_audio_conversation
  \/ RemoteClose
  \/ StreamFinally
  \/ StreamStopped
  \/ \E text \in {"talk", "end"} : OnTranscription(text)
  \/ StopTaskStart
  \/ StopTaskEnd
  \/ \E i \in Calls : GenStart(i)
  \/ \E i \in Calls : GenWake(i)
  \/ \E hasId \in BOOLEAN : OnResponseCreated(hasId)
  \/ OnAudioDelta
  \/ DelayElapsed
  \/ OnResponseDone
  \/ RunFinally
  \/ RunAborted
  \/ Tick

\* The event loop runs every task that is ready, a close and a sleep return,
\* and time passes.
FairApp ==
  /\ Init /\ [][NextApp]_vars
  /\ WF_vars(StopTaskStart)
  /\ WF_vars(StopTaskEnd)
  /\ WF_vars(StreamFinally)
  /\ WF_vars(StreamStopped)
  /\ WF_vars(DelayElapsed)
  /\ WF_vars(RunFinally)
  /\ WF_vars(Tick)

\* The same run of a user who says the end command and, before or after
\* it, at most one other sentence: one response request is queued, and the
\* remote service creates responses as before.
NextEnd ==
  \/ \E ok \in BOOLEAN : start_realtime_session(ok)
  \/ stream_audio_conversation
  \/ RemoteClose
  \/ StreamFinally
  \/ StreamStopped
  \/ gen[1].pc = "none" /\ OnTranscription("talk")
  \/ OnTranscription("end")
  \/ StopTaskStart
  \/ StopTaskEnd
  \/ GenStart(1)
  \/ GenWake(1)
  \/ \E hasId \in BOOLEAN : OnResponseCreated(hasId)
  \/ OnAudioDelta
  \/ DelayElapsed
  \/ OnResponseDone
  \/ RunFinally
  \/ RunAborted
  \/ Tick

FairEnd ==
  /\ Init /\ [][NextEnd]_vars
  /\ WF_vars(StopTaskStart)
  /\ WF_vars(StopTaskEnd)
  /\ WF_vars(StreamFinally)
  /\ WF_vars(StreamStopped)
  /\ WF_vars(DelayElapsed)
  /\ WF_vars(RunFinally)
  /\ WF_vars(Tick)

\* ------------------------------------------------------ DailyConversation
\* connect_realtime_api
DcConnect(ok) ==
  /\ daily.main = "new"
  /\ daily' = IF ok
                THEN [daily EXCEPT !.websocket = "open", !.is_connected = TRUE,
                                   !.main = "connected"]
                ELSE [daily EXCEPT !.main = "failed"]

\* start_conversation up to the first sleep of its loop.
DcStart ==
  /\ daily.main = "connected"
  /\ daily.is_connected
  /\ daily' = [daily EXCEPT !.main = "loop", !.response_task = "recv",
                            !.audio_task = "loop"]

\* A task after task.cancel(): a finished task stays as it ended.
DcCancelled(t) == IF t \in {"ended", "none"} THEN t ELSE "cancelled"

\* "while self.conversation_active: await asyncio.sleep(0.1)", then the
\* cancellation of both tasks.
DcPoll ==
  /\ daily.main = "loop"
  /\ daily' = IF daily.conversation_active
                THEN daily
                ELSE [daily EXCEPT !.main = "returned",
                                   !.response_task = DcCancelled(daily.response_task),
                                   !.audio_task = DcCancelled(daily.audio_task)]

\* disconnect, which test_conversation calls after start_conversation returned.
DcDisconnect ==
  /\ daily.main = "returned"
  /\ daily' = [daily EXCEPT !.main = "closed",
                 !.websocket = IF daily.websocket = "none" THEN "none" ELSE "closed",
                 !.is_connected = IF daily.websocket = "none"
                                    THEN daily.is_connected ELSE FALSE]

\* The remote service or the network closes the connection.
DcRemoteClose ==
  /\ daily.websocket = "open"
  /\ daily' = [daily EXCEPT !.websocket = "closed"]

\* _handle_responses takes a message: a transcript without exit command, an
\* audio delta ("talk"), a transcript with an exit command ("exit":
\* _handle_goodbye up to its sleep), or a text json.loads rejects ("bad": the
\* loop ends in "except Exception").
DcOnMessage(kind) ==
  /\ daily.response_task = "recv"
  /\ daily.websocket = "open"
  /\ kind = "talk" => daily.heard < MaxChunks
  /\ daily' = CASE kind = "talk" -> [daily EXCEPT !.heard = daily.heard + 1]
                [] kind = "exit" -> [daily EXCEPT !.response_task = "goodbye"]
                [] OTHER -> [daily EXCEPT !.response_task = "ended"]

\* _handle_goodbye after its sleep, and the "break" of the loop.
DcGoodbyeEnd ==
  /\ daily.response_task = "goodbye"
  /\ daily' = [daily EXCEPT !.conversation_active = FALSE, !.response_task = "ended"]

\* The iteration over a closed websocket ends or raises ConnectionClosed,
\* which "except Exception" prints.
DcRecvClosed ==
  /\ daily.response_task = "recv"
  /\ daily.websocket = "closed"
  /\ daily' = [daily EXCEPT !.response_task = "ended"]

\* One iteration of _audio_input_loop: _send_audio_data prints a failed send
\* and the loop goes on.
DcAudioChunk ==
  /\ daily.audio_task = "loop"
  /\ (daily.conversation_active /\ daily.is_connected /\ daily.websocket = "open")
       => daily.chunks < MaxChunks
  /\ daily' = IF daily.conversation_active /\ daily.is_connected
                THEN IF daily.websocket = "open"
                       THEN [daily EXCEPT !.chunks = daily.chunks + 1]
                       ELSE daily
                ELSE [daily EXCEPT !.audio_task = "ended"]

NextDaily ==
  /\ \/ \E ok \in BOOLEAN : DcConnect(ok)
     \/ DcStart
     \/ DcPoll
     \/ DcDisconnect
     \/ DcRemoteClose
     \/ \E kind \in {"talk", "exit", "bad"} : DcOnMessage(kind)
     \/ DcGoodbyeEnd
     \/ DcRecvClosed
     \/ DcAudioChunk
  /\ UNCHANGED <<handler, tasks, now, srv, step, burst, app, checker, timers, others>>

SpecDaily == InitDaily /\ [][NextDaily]_vars

\* ---------------------------------------------------------- SafetyChecker
\* The kinds of user transcript: with an emergency keyword ("tasukete"),
\* with a negative word that is no emergency keyword ("tsukareta"), with
\* neither.
Kinds == {"emg", "neg", "ok"}

\* The indices of self.user_responses[-3:].
Recent(rs) == {k \in 1..Len(rs) : k > Len(rs) - RecentWindow}

_detect_emergency(rs) == \E k \in Recent(rs) : rs[k] = "emg"

_contains_negative_words(text) == text = "neg"

_determine_safety_status(rs) ==
  IF rs = <<>> THEN "UNKNOWN"
  ELSE IF _detect_emergency(rs) THEN "EMERGENCY"
  ELSE IF \E k \in 1..Len(rs) : rs[k] = "neg" THEN "NEEDS_ATTENTION"
  ELSE "SAFE"

\* (positive_score - negative_score) / max(total_words * 0.1, 1): of the
\* three kinds only "tsukareta" is in a word list, and up to ten transcripts
\* divide by 1.
_calculate_emotion_score(rs) ==
  IF \E k \in 1..Len(rs) : rs[k] = "neg" THEN -1 ELSE 0

\* The important keywords found: of the three kinds only "tsukareta" is one.
_extract_keywords(rs) ==
  IF \E k \in 1..Len(rs) : rs[k] = "neg" THEN {"neg"} ELSE {}

\* The text for no response, or the response count and the mood.
_generate_summary(rs) ==
  IF rs = <<>> THEN <<0, "none">>
  ELSE <<Len(rs), IF _calculate_emotion_score(rs) < 0 THEN "caution" ELSE "normal">>

\* expected_response_time of the five steps.
StepTimeout(i) ==
  CASE i = 1 -> 10
    [] i = 2 -> 8
    [] i = 3 -> 10
    [] i = 4 -> 8
    [] i = 5 -> 5

\* The message of step i: _health_check_step chooses by the last transcript.
StepMessage(i, current_transcript) ==
  CASE i = 1 -> "greeting"
    [] i = 2 -> IF _contains_negative_words(current_transcript)
                  THEN "health_concern" ELSE "health"
    [] i = 3 -> "mood"
    [] i = 4 -> "daily_life"
    [] i = 5 -> "closing"

\* A wait that is over at once.
WaitIsOverAtOnce(c) == TRUE

\* wait_for(_wait_for_user_response(), timeout): a response newer than the
\* count taken at the start of the wait, or the timeout.
WaitIsOver(c) ==
  \/ Len(c.user_responses) > c.base
  \/ c.waited >= StepTimeout(c.i)

\* A step of the script up to its wait: _send_message_and_wait appends the
\* message, sends it and starts to wait.
BeginStep(c, i) ==
  [c EXCEPT !.pc = "waiting", !.i = i,
            !.ai_responses = Append(c.ai_responses, StepMessage(i, c.current_transcript)),
            !.base = Len(c.user_responses),
            !.waited = 0]

\* A start that keeps the logs of the session before.
ClearedNot(log) == log

\* "self.user_responses.clear()", "self.ai_responses.clear()"
Cleared(log) == <<>>

\* start_safety_check to the wait of the first step: the logs are cleared,
\* the stream task is created and _greeting_step sends its message.
StartCheck(c) ==
  BeginStep([c EXCEPT !.user_responses = Cleared(c.user_responses),
                      !.ai_responses = Cleared(c.ai_responses),
                      !.arrived = <<>>,
                      !.seen = 0], 1)

ScStart ==
  /\ checker.pc = "new"
  /\ checker' = StartCheck(checker)

\* start_safety_check called again on the same object, after its result.
ScRestart ==
  /\ checker.pc = "done"
  /\ checker.runs < MaxRuns
  /\ checker' = [StartCheck(checker) EXCEPT !.runs = checker.runs + 1]

\* on_transcription: self.current_transcript = text and
\* self.user_responses.append(text).  seen is the step during which the
\* first transcript with an emergency keyword arrived, arrived the
\* transcripts delivered in this session, total those of all sessions.
ScTranscription(kind) ==
  /\ checker.pc \in {"waiting", "pause"}
  /\ checker.total < MaxResponses
  /\ checker' = [checker EXCEPT
                   !.current_transcript = kind,
                   !.user_responses = Logged(checker.user_responses, kind),
                   !.arrived = Append(checker.arrived, kind),
                   !.total = checker.total + 1,
                   !.seen = IF kind = "emg" /\ checker.seen = 0
                              THEN checker.i ELSE checker.seen]

\* A second passes during the wait of a step.
ScTick ==
  /\ checker.pc = "waiting"
  /\ checker.waited < StepTimeout(checker.i)
  /\ checker' = [checker EXCEPT !.waited = checker.waited + 1]

\* _send_message_and_wait ends, by a new response or by its timeout, and
\* "await asyncio.sleep(3)" begins.
ScWaitOver ==
  /\ checker.pc = "waiting"
  /\ WaitIsOver(checker)
  /\ checker' = [checker EXCEPT !.pc = "pause"]

\* _analyze_conversation: the ConversationResult of the live logs.
Analyzed(c) ==
  [built |-> TRUE,
   user_responses |-> CopyOf(c.user_responses),
   ai_responses |-> CopyOf(c.ai_responses),
   safety_status |-> _determine_safety_status(c.user_responses),
   needs_followup |-> NeedsFollowup(_determine_safety_status(c.user_responses)),
   emotion_score |-> _calculate_emotion_score(c.user_responses),
   keywords |-> _extract_keywords(c.user_responses),
   summary |-> _generate_summary(c.user_responses)]

\* After the sleep: "if self._detect_emergency(): break", else the next
\* step; after the loop _analyze_conversation builds the result.
ScScan ==
  /\ checker.pc = "pause"
  /\ checker' = IF _detect_emergency(checker.user_responses) \/ checker.i = ScriptSteps
                  THEN [checker EXCEPT !.pc = "done",
                          !.status = _determine_safety_status(checker.user_responses),
                          !.result = Analyzed(checker)]
                  ELSE BeginStep(checker, checker.i + 1)

\* The script leaves the rest of the state alone.
ScFrame == UNCHANGED <<handler, tasks, now, srv, step, burst, app, daily, timers, others>>

NextSafety ==
  /\ \/ ScStart
     \/ \E kind \in Kinds : ScTranscription(kind)
     \/ ScTick
     \/ ScWaitOver
     \/ ScScan
  /\ ScFrame

SpecSafety == InitSafety /\ [][NextSafety]_vars

\* The event loop runs the script when a wait or a sleep returns, and time
\* passes.
FairSafety ==
  /\ InitSafety /\ [][NextSafety]_vars
  /\ WF_vars(ScTick /\ ScFrame)
  /\ WF_vars(ScWaitOver /\ ScFrame)
  /\ WF_vars(ScScan /\ ScFrame)

\* The same checker used for further safety checks.
NextReuse ==
  \/ NextSafety
  \/ ScRestart /\ ScFrame

SpecReuse == InitSafety /\ [][NextReuse]_vars

\* ------------------------------------------- logs and ConversationResult
\* The kinds of transcript RealtimeCareApp receives: the kinds above, an
\* end command, and a sentence with no keyword.
Texts == {"talk", "end", "emg", "neg"}

\* RealtimeCareApp.run with its transcripts, from the start of the session
\* to the finalization.
NextCare ==
  \/ \E ok \in BOOLEAN : start_realtime_session(ok)
  \/ stream_audio_conversation
  \/ RemoteClose
  \/ StreamFinally
  \/ StreamStopped
  \/ \E text \in Texts : OnTranscription(text)
  \/ StopTaskStart
  \/ StopTaskEnd
  \/ RunFinally
  \/ RunAborted

\* A process that constructs a RealtimeCareApp or a SafetyChecker.
InitResult ==
  /\ InitHandler
  /\ daily = Absent
  /\ checker = NoChecker
  /\ announcer = Absent
  /\ sched = Absent
  /\ NoOthers

\* The process runs one of the two: the session of RealtimeCareApp, or
\* safety checks of the SafetyChecker.
NextResult ==
  \/ checker.pc = "new" /\ NextCare
  \/ app.pc = "new" /\ rx.pc = "new" /\ NextReuse

SpecResult == InitResult /\ [][NextResult]_vars

\* ------------------------------------------------------- TimeAnnouncement
\* datetime.now() at a call of get_time_message: every hour of the day, and
\* the first, the middle and the last minute of the hour.
Hours == 0..23
Minutes == {0, 30, 59}

\* get_time_message: the greeting of the hour, the hour and the minute.
get_time_message(hour, minute) ==
  [kind |-> "message",
   greeting |-> IF 5 <= hour /\ hour < 12 THEN "morning"
                ELSE IF 12 <= hour /\ hour < 17 THEN "day"
                ELSE "evening",
   hour |-> hour, minute |-> minute]

\* "return None"
ReturnedNone == [kind |-> "none"]

\* An announcement that leaves the flag as it was.
AnnouncedUnmarked(a) == a.announcement_made

\* "self.announcement_made = True"
Announced(a) == TRUE

\* announce_time at hour:minute.  count is the number of announcements
\* since the last reset, counted up to 2.
announce_time(hour, minute) ==
  /\ announcer' =
       IF announcer.announcement_made
         THEN [announcer EXCEPT !.op = "announce", !.returned = ReturnedNone]
         ELSE [announcer EXCEPT !.op = "announce",
                 !.returned = get_time_message(hour, minute),
                 !.announcement_made = Announced(announcer),
                 !.count = IF announcer.count < 2 THEN announcer.count + 1 ELSE 2]
  /\ UNCHANGED <<handler, tasks, now, srv, step, burst, app, daily, checker, sched, others>>

reset_announcement ==
  /\ announcer' = [announcer EXCEPT !.op = "reset", !.announcement_made = FALSE,
                                    !.count = 0]
  /\ UNCHANGED <<handler, tasks, now, srv, step, burst, app, daily, checker, sched, others>>

NextAnnounce ==
  \/ \E hour \in Hours, minute \in Minutes : announce_time(hour, minute)
  \/ reset_announcement

SpecAnnounce == InitAnnounce /\ [][NextAnnounce]_vars

\* ------------------------------------------------ TimeAnnouncementScheduler
\* remove_scheduled_check: the checks that do not match.
RECURSIVE Without(_, _)
Without(checks, key) ==
  IF checks = <<>> THEN <<>>
  ELSE IF Head(checks).key = key THEN Without(Tail(checks), key)
  ELSE <<Head(checks)>> \o Without(Tail(checks), key)

\* The index of the first check that matches, 0 when there is none.
FirstMatch(checks, key) ==
  IF \E k \in 1..Len(checks) : checks[k].key = key
    THEN CHOOSE k \in 1..Len(checks) :
           /\ checks[k].key = key
           /\ \A j \in 1..(k - 1) : checks[j].key # key
    ELSE 0

\* enable_schedule, disable_schedule: the flag of the first match.
WithEnabled(checks, key, flag) ==
  IF FirstMatch(checks, key) = 0 THEN checks
  ELSE [checks EXCEPT ![FirstMatch(checks, key)].enabled = flag]

\* The jobs registered after schedule.clear(): one for each enabled check.
Registered(checks) ==
  [key \in CheckKeys |->
     Cardinality({k \in 1..Len(checks) : checks[k].key = key /\ checks[k].enabled})]

\* add_scheduled_check with a valid time: the check is appended and a job is
\* registered with the schedule library.
add_scheduled_check(key) ==
  /\ Len(sched.scheduled_checks) < MaxChecks
  /\ sched' = [sched EXCEPT
                 !.scheduled_checks = Append(sched.scheduled_checks,
                                             ScheduledCheck(key)),
                 !.jobs[key] = sched.jobs[key] + 1,
                 !.executed = "none"]

remove_scheduled_check(key) ==
  /\ sched' = [sched EXCEPT
                 !.scheduled_checks = Without(sched.scheduled_checks, key),
                 !.jobs = Registered(Without(sched.scheduled_checks, key)),
                 !.executed = "none"]

enable_schedule(key) ==
  /\ sched' = [sched EXCEPT
                 !.scheduled_checks = WithEnabled(sched.scheduled_checks, key, TRUE),
                 !.executed = "none"]

disable_schedule(key) ==
  /\ sched' = [sched EXCEPT
                 !.scheduled_checks = WithEnabled(sched.scheduled_checks, key, FALSE),
                 !.executed = "none"]

\* "if self.on_scheduled_check: self.on_scheduled_check(time_str, user_name)":
\* a plain call from the scheduler thread.  Without a manager the callback
\* is None.  With one it is the coroutine function _handle_scheduled_check:
\* the call only builds a coroutine object, which nothing awaits and no
\* event loop is given, so none of its body runs.
on_scheduled_check(key) ==
  IF sched.on_scheduled_check = "none" THEN mgr
  ELSE [mgr EXCEPT !.unawaited = IF mgr.unawaited < 2 THEN mgr.unawaited + 1 ELSE 2]

\* The time of a key comes and run_pending runs its jobs:
\* _execute_scheduled_check announces the time, calls on_scheduled_check and
\* stamps last_executed of the first match.  executed is the key whose check
\* the step executed.
TimeFires(key) ==
  /\ mgr' = IF sched.jobs[key] > 0 THEN on_scheduled_check(key) ELSE mgr
  /\ sched' = IF sched.jobs[key] > 0
                THEN [sched EXCEPT
                        !.scheduled_checks =
                           IF FirstMatch(sched.scheduled_checks, key) = 0
                             THEN sched.scheduled_checks
                             ELSE [sched.scheduled_checks EXCEPT
                                     ![FirstMatch(sched.scheduled_checks, key)]
                                        .last_executed = TRUE],
                        !.executed = key]
                ELSE [sched EXCEPT !.executed = "none"]

\* What the scheduler leaves alone.
SchedFrame ==
  UNCHANGED <<handler, tasks, now, srv, step, burst, app, daily, checker, announcer,
              chat, db, notifier, fin>>

NextSchedule ==
  /\ \E key \in CheckKeys :
        \/ add_scheduled_check(key) /\ UNCHANGED mgr
        \/ remove_scheduled_check(key) /\ UNCHANGED mgr
        \/ enable_schedule(key) /\ UNCHANGED mgr
        \/ disable_schedule(key) /\ UNCHANGED mgr
        \/ TimeFires(key)
  /\ SchedFrame

SpecSchedule == InitSchedule /\ [][NextSchedule]_vars

\* ----------------------------------------------------- the scheduler thread
\* sched.threads are the threads created by start, in order, each at a
\* point of _run_scheduler: "check" (the while test), "jobs" (run_pending),
\* "sleep" (time.sleep(1)) or "exited"; scheduler_thread is the index of the
\* last one, 0 for None.

\* start: nothing when running; else the flag is set and a new daemon
\* thread is created and started.
start ==
  /\ sched.running \/ Len(sched.threads) < MaxThreads
  /\ sched' = IF sched.running THEN sched
              ELSE [sched EXCEPT !.running = TRUE,
                                 !.threads = Append(sched.threads, "check"),
                                 !.scheduler_thread = Len(sched.threads) + 1]

\* stop: the flag is cleared and the last thread joined with a timeout of
\* one second: the thread has left its loop by then (joined), or it is
\* still in run_pending or in its sleep and stop returns all the same.
stop(joined) ==
  /\ sched' = [sched EXCEPT
                 !.running = FALSE,
                 !.threads = IF joined /\ sched.scheduler_thread # 0
                               THEN [sched.threads EXCEPT
                                       ![sched.scheduler_thread] = "exited"]
                               ELSE sched.threads]

\* "while self.running:" evaluated by thread t.
LoopCheck(t) ==
  /\ sched.threads[t] = "check"
  /\ sched' = [sched EXCEPT !.threads[t] = IF sched.running THEN "jobs" ELSE "exited"]

\* schedule.run_pending() of thread t returns.
RunPending(t) ==
  /\ sched.threads[t] = "jobs"
  /\ sched' = [sched EXCEPT !.threads[t] = "sleep"]

\* time.sleep(1) of thread t is over.
Wake(t) ==
  /\ sched.threads[t] = "sleep"
  /\ sched' = [sched EXCEPT !.threads[t] = "check"]

NextThreads ==
  /\ \/ start
     \/ \E joined \in BOOLEAN : stop(joined)
     \/ \E t \in 1..Len(sched.threads) : LoopCheck(t) \/ RunPending(t) \/ Wake(t)
  /\ UNCHANGED mgr
  /\ SchedFrame

SpecThreads == InitSchedule /\ [][NextThreads]_vars

\* ------------------------------------------------------ SafetyCheckManager
HandlerCalls == 1..MaxHandlers

\* SafetyCheckManager.__init__: no active check.  handlers are the awaited
\* calls of _handle_scheduled_check, unawaited the coroutine objects built
\* and dropped (counted up to 2), completed the ids on_check_complete was
\* called for, started the SafetyChecker objects created (counted up to 2).
NoManager ==
  [active_checks |-> {},
   handlers |-> [c \in HandlerCalls |-> [pc |-> "none", id |-> "none"]],
   unawaited |-> 0,
   started |-> [key \in CheckKeys |-> 0],
   completed |-> {}]

\* A process that constructs a SafetyCheckManager: the manager and its
\* scheduler.
InitManager ==
  /\ InitHandler
  /\ daily = Absent
  /\ checker = Absent
  /\ announcer = Absent
  /\ sched = [NoSchedule EXCEPT !.on_scheduled_check = "_handle_scheduled_check"]
  /\ mgr = NoManager
  /\ chat = Absent
  /\ db = Absent
  /\ notifier = Absent
  /\ fin = Absent

\* A second call that treats the running entry as its own: it skips the
\* start but still runs the cleanup.
ReturnedAfterCleanup(m, key) == [m EXCEPT !.active_checks = m.active_checks \ {key}]

\* "if check_id in self.active_checks: ... return": before the try, so the
\* finally does not run.
Returned(m, key) == m

\* An awaited _handle_scheduled_check, from the call to the await of
\* start_safety_check: the check for a running entry, the new SafetyChecker
\* and its entry in active_checks.
HandleStart(c, key) ==
  /\ mgr.handlers[c].pc = "none"
  /\ mgr' = IF key \in mgr.active_checks
              THEN [Returned(mgr, key) EXCEPT
                      !.handlers[c] = [pc |-> "returned", id |-> key]]
              ELSE [mgr EXCEPT
                      !.handlers[c] = [pc |-> "checking", id |-> key],
                      !.active_checks = mgr.active_checks \cup {key},
                      !.started[key] = IF mgr.started[key] < 2
                                         THEN mgr.started[key] + 1 ELSE 2]
  /\ UNCHANGED sched

\* start_safety_check returns its result (ok) or raises: on_check_complete
\* is called with the result, an exception is logged, and the finally
\* deletes the entry.
HandleFinish(c, ok) ==
  /\ mgr.handlers[c].pc = "checking"
  /\ mgr' = [mgr EXCEPT
               !.handlers[c].pc = IF ok THEN "done" ELSE "raised",
               !.completed = IF ok THEN mgr.completed \cup {mgr.handlers[c].id}
                             ELSE mgr.completed,
               !.active_checks = mgr.active_checks \ {mgr.handlers[c].id}]
  /\ UNCHANGED sched

\* The manager: its scheduler fires, schedules are added, and
\* _handle_scheduled_check is awaited by a caller.
NextManager ==
  /\ \/ \E key \in CheckKeys : TimeFires(key)
     \/ \E key \in CheckKeys : add_scheduled_check(key) /\ UNCHANGED mgr
     \/ \E c \in HandlerCalls, key \in CheckKeys : HandleStart(c, key)
     \/ \E c \in HandlerCalls, ok \in BOOLEAN : HandleFinish(c, ok)
  /\ SchedFrame

SpecManager == InitManager /\ [][NextManager]_vars

\* ---------------------------------------------------------- SimpleVoiceChat
\* SimpleVoiceChat.__init__: an empty history; returned is what the last
\* generate_response call returned.
NoChat == [conversation_history |-> <<>>, returned |-> "none"]

\* A process that constructs a SimpleVoiceChat.
InitChat ==
  /\ InitHandler
  /\ daily = Absent
  /\ checker = Absent
  /\ announcer = Absent
  /\ sched = Absent
  /\ mgr = Absent
  /\ chat = NoChat
  /\ db = Absent
  /\ notifier = Absent
  /\ fin = Absent

\* "if len(h) > 20: h = h[-20:]"
Trimmed(h) ==
  IF Len(h) > HistoryLimit
    THEN SubSeq(h, Len(h) - HistoryLimit + 1, Len(h))
    ELSE h

\* generate_response: the user entry is appended and the history trimmed;
\* then the completion is requested, and when it arrives (ok) the assistant
\* entry is appended and the text returned; when the request raises, the
\* fixed apology is returned.  An entry is modelled by its role.
generate_response(ok) ==
  /\ chat' =
       LET h == Trimmed(Append(chat.conversation_history, "user"))
       IN  IF ok THEN [conversation_history |-> Append(h, "assistant"),
                       returned |-> "ai_text"]
           ELSE [conversation_history |-> h, returned |-> "apology"]
  /\ UNCHANGED <<handler, tasks, now, srv, step, burst, app, daily, checker, timers,
                 mgr, db, notifier, fin>>

NextChat == \E ok \in BOOLEAN : generate_response(ok)

SpecChat == InitChat /\ [][NextChat]_vars

\* ----------------------------------------------------- ConversationDatabase
\* get_recent_conversations(days): the windows asked for.
DayWindows == {1, 7}

\* _initialize_database: "DROP TABLE IF EXISTS conversations" and the
\* CREATE TABLE that follows leave an empty table.
Initialized(rows) == {}

\* The file after the first ConversationDatabase of the first process was
\* constructed.  conversations is the table (a row is [id, conv, timestamp,
\* safety_status], conv standing for the content), next_id the
\* AUTOINCREMENT counter that goes with the table, day today's date,
\* saved the conversations save_conversation has committed, instances the
\* ConversationDatabase objects constructed (counted up to 2), and op,
\* days, returned the last call and its result.
NoDatabase ==
  [conversations |-> Initialized({}), next_id |-> 1, day |-> 0, saved |-> {},
   instances |-> 1, op |-> "init", days |-> 0, returned |-> {}]

\* A process that constructs a ConversationDatabase.
InitDatabase ==
  /\ InitHandler
  /\ daily = Absent
  /\ checker = Absent
  /\ announcer = Absent
  /\ sched = Absent
  /\ mgr = Absent
  /\ chat = Absent
  /\ db = NoDatabase
  /\ notifier = Absent
  /\ fin = Absent

\* What the database leaves alone.
DbFrame ==
  UNCHANGED <<handler, tasks, now, srv, step, burst, app, daily, checker, timers,
              mgr, chat, notifier, fin>>

\* ConversationDatabase(db_path) on the same path: another instance in the
\* process, or the first one of a restarted application.
ConversationDatabase ==
  /\ db' = [db EXCEPT
              !.conversations = Initialized(db.conversations),
              !.next_id = IF Initialized(db.conversations) = {} THEN 1 ELSE db.next_id,
              !.instances = IF db.instances < 2 THEN db.instances + 1 ELSE 2,
              !.op = "init"]
  /\ DbFrame

\* save_conversation: the INSERT and the commit (ok), or an exception that
\* rolls the transaction back and is raised again.
save_conversation(status, ok) ==
  /\ Cardinality(db.saved) < MaxSaves
  /\ db' = IF ok
             THEN [db EXCEPT
                     !.conversations = db.conversations \cup
                        {[id |-> db.next_id, conv |-> Cardinality(db.saved) + 1,
                          timestamp |-> db.day, safety_status |-> status]},
                     !.next_id = db.next_id + 1,
                     !.saved = db.saved \cup
                        {[conv |-> Cardinality(db.saved) + 1, timestamp |-> db.day]},
                     !.op = "save"]
             ELSE [db EXCEPT !.op = "save_failed"]
  /\ DbFrame

\* "WHERE timestamp >= since_date", since_date = now - days.
InWindow(timestamp, today, days) == timestamp >= today - days

\* get_recent_conversations(days): the rows of the window (their order,
\* timestamp DESC, is left out).
get_recent_conversations(days) ==
  /\ db' = [db EXCEPT
              !.op = "get",
              !.days = days,
              !.returned = {row \in db.conversations :
                              InWindow(row.timestamp, db.day, days)}]
  /\ DbFrame

\* A day passes.
DayPasses ==
  /\ db.day < MaxDays
  /\ db' = [db EXCEPT !.day = db.day + 1, !.op = "day"]
  /\ DbFrame

NextDatabase ==
  \/ ConversationDatabase
  \/ \E status \in {"safe", "emergency"}, ok \in BOOLEAN : save_conversation(status, ok)
  \/ \E days \in DayWindows : get_recent_conversations(days)
  \/ DayPasses

SpecDatabase == InitDatabase /\ [][NextDatabase]_vars

\* ------------------------------------------------------------ EmailNotifier
\* SafetyStatus and EmotionCategory.
Statuses == {"UNKNOWN", "SAFE", "NEEDS_ATTENTION", "EMERGENCY"}
Categories == {"positive", "neutral", "negative", "anxious", "depressed", "energetic"}

\* EmotionAnalysis.overall_score, -1.0 to 1.0, in tenths: the ends, the
\* threshold and its neighbours, and zero.
Scores == {0 - 10, 0 - 6, 0 - 5, 0 - 4, 0, 10}

\* EmailNotifier.__init__: should_notify not called yet.
NoNotifier ==
  [safety_status |-> "none", needs_followup |-> FALSE, category |-> "none",
   overall_score |-> 0, returned |-> <<FALSE, <<>>>>, called |-> FALSE]

\* A process that constructs an EmailNotifier.
InitNotifier ==
  /\ InitHandler
  /\ daily = Absent
  /\ checker = Absent
  /\ announcer = Absent
  /\ sched = Absent
  /\ mgr = Absent
  /\ chat = Absent
  /\ db = Absent
  /\ notifier = NoNotifier
  /\ fin = Absent

\* A threshold that takes -0.5 itself for low.
LowScoreInclusive(score) == score <= 0 - LowScoreTenths

\* "if emotion_analysis.overall_score < -0.5"
LowScore(score) == score < 0 - LowScoreTenths

\* The reasons list of should_notify, in the order of its appends.
Reasons(status, followup, category, score) ==
  (IF status = "EMERGENCY" THEN <<"emergency">>
   ELSE IF status = "NEEDS_ATTENTION" THEN <<"needs_attention">> ELSE <<>>)
  \o (IF category \in {"negative", "anxious", "depressed"} THEN <<"negative_emotion">>
      ELSE <<>>)
  \o (IF LowScore(score) THEN <<"low_score">> ELSE <<>>)
  \o (IF followup THEN <<"followup">> ELSE <<>>)

\* should_notify(conversation_result, emotion_analysis):
\* "return bool(reasons), ' / '.join(reasons)"
should_notify(status, followup, category, score) ==
  /\ notifier' =
       [safety_status |-> status, needs_followup |-> followup, category |-> category,
        overall_score |-> score,
        returned |-> <<Reasons(status, followup, category, score) # <<>>,
                       Reasons(status, followup, category, score)>>,
        called |-> TRUE]
  /\ UNCHANGED <<handler, tasks, now, srv, step, burst, app, daily, checker, timers,
                 mgr, chat, db, fin>>

NextNotifier ==
  \E status \in Statuses, followup \in BOOLEAN, category \in Categories, score \in Scores :
    should_notify(status, followup, category, score)

SpecNotifier == InitNotifier /\ [][NextNotifier]_vars

\* ------------------------------------------- RealtimeCareApp finalization
\* Nothing finalized yet.  db, sheets and email are what became of the three
\* collaborators in the last finalization.
NoFinalize ==
  [done |-> FALSE, safety_status |-> "none", db |-> "none", displayed |-> <<>>,
   sheets |-> "none", email |-> "none"]

\* A RealtimeCareApp whose session is over and whose result is about to be
\* processed.
InitFinalize ==
  /\ InitHandler
  /\ daily = Absent
  /\ checker = Absent
  /\ announcer = Absent
  /\ sched = Absent
  /\ mgr = Absent
  /\ chat = Absent
  /\ db = Absent
  /\ notifier = Absent
  /\ fin = NoFinalize

\* _send_email_notification: its own try/except; should_notify decides
\* whether send_notification is called.
EmailStep(status, category, score, available, outcome) ==
  IF ~available THEN "unavailable"
  ELSE IF outcome = "raises" THEN "raised"
  ELSE IF ~(Reasons(status, NeedsFollowup(status), category, score) # <<>>)
    THEN "not_needed"
  ELSE IF outcome = "sent" THEN "sent" ELSE "send_failed"

\* The try block of _finalize_if_needed for a built result:
\* process_conversation (analysis and save_conversation, which raises when
\* the database fails), _display_result, _record_to_google_sheets (its own
\* try/except: sheets is what the sheet manager did) and
\* _send_email_notification; an exception of process_conversation goes to
\* the except of the block, past the steps that follow.
FinalizeResult(status, category, score, dbOk, sheets, available, outcome) ==
  /\ fin' = IF dbOk
              THEN [done |-> TRUE, safety_status |-> status, db |-> "saved",
                    displayed |-> <<status, category, score>>,
                    sheets |-> sheets,
                    email |-> EmailStep(status, category, score, available, outcome)]
              ELSE [done |-> TRUE, safety_status |-> status, db |-> "raised",
                    displayed |-> <<>>,
                    sheets |-> "not_reached", email |-> "not_reached"]
  /\ UNCHANGED <<handler, tasks, now, srv, step, burst, app, daily, checker, timers,
                 mgr, chat, db, notifier>>

NextFinalize ==
  \E status \in Statuses, category \in {"neutral", "negative"},
     score \in {0 - LowScoreTenths - 1, 0}, dbOk \in BOOLEAN,
     sheets \in {"unavailable", "recorded", "refused", "raises"},
     available \in BOOLEAN, outcome \in {"sent", "refused", "raises"} :
    FinalizeResult(status, category, score, dbOk, sheets, available, outcome)

SpecFinalize == InitFinalize /\ [][NextFinalize]_vars

\* ---------------------------------------------------------------- claims

\* C1: while a response turn is active (response.created handled, its
\* response.done not yet), no operation sends a response.create command.
C1_NoCreateWhileTurnActive == step.sent \in Creators => ~TurnActive

\* C2: of two _generate_response calls in direct succession that find the
\* state Idle and the cooldown passed, the first sends and the second is
\* rejected: never do two consecutive calls both send at once.
C2_SecondCallRejected == burst <= 1

\* C3: a _generate_response call made while response_in_progress is true
\* returns without sending and without changing the turn state, and the
\* rejected request stays rejected: it is never sent later.
C3_RejectedIsDropped ==
  [][\A i \in Calls :
       /\ (gen[i].pc = "ready" /\ response_in_progress /\ gen'[i].pc # "ready")
            => (gen'[i].pc = "rejected" /\ step'.sent = "none" /\ UNCHANGED turnState)
       /\ gen[i].pc = "rejected" => gen'[i].pc = "rejected"]_vars

\* C3 witness: a request was rejected and the turn that caused the rejection
\* has ended since.
C3_Witness ==
  \E i \in Calls : gen[i].pc = "rejected" /\ ~response_in_progress /\ ~TurnActive

\* C4: two _generate_response calls suspended on the same cooldown window
\* do not both send response.create with no response.done between the sends.
C4_OneCreateAfterCooldown ==
  ~ \E i, j \in Calls :
      /\ i # j
      /\ gen[i].pc = "sentLate"
      /\ gen[j].pc = "sentLate"
      /\ gen[i].win = gen[j].win

\* C5: a _generate_response call made before response_cooldown_until with
\* no response in progress sends nothing at the call, and sends its
\* response.create no earlier than that response_cooldown_until.
C5_SentNoEarlierThanCooldown ==
  [][\A i \in Calls :
       /\ (gen[i].pc = "ready" /\ ~response_in_progress /\ now < response_cooldown_until
             /\ gen'[i].pc # "ready")
            => (gen'[i].pc = "sleeping" /\ step'.sent = "none")
       /\ (gen[i].pc = "sleeping" /\ gen'[i].pc # "sleeping")
            => now >= gen[i].deadline]_vars

\* C5 witness: a call that was suspended on the cooldown has sent.
C5_Witness == \E i \in Calls : gen[i].pc = "sentLate" /\ step.sent = "generate"

\* C6: once a response.done has been handled, no response.create is sent
\* before the cooldown timestamp that the last response.done set.
C6_NoCreateBeforeCooldown ==
  (step.sent \in Creators /\ Dones > 0) => now >= response_cooldown_until

C8_LateDoneIsNoOp ==
  [][(srv.open # 0 /\ srv.canceled /\ srv'.open = 0)
       => UNCHANGED <<response_cooldown_until, response_in_progress,
                      current_response_id, suppress_audio_output>>]_vars

\* C9: _cancel_active_response called when no turn is active (none started,
\* the last one done, or the open one already closed by an earlier cancel)
\* sends no response.cancel and changes no turn state.
C9_CancelWithoutTurnIsNoOp ==
  [][(step'.cancel /\ ~(TurnActive /\ ~srv.canceled))
       => (step'.sent = "none" /\ UNCHANGED turnState)]_vars

\* C10: whenever response_in_progress is true the handler tracks exactly one
\* turn: the one whose response.created was handled last and whose
\* response.done was not, with current_response_id that turn's id (None
\* when the event carried none).
C10_OneTrackedTurn ==
  response_in_progress => (TurnActive /\ current_response_id = srv.id)

\* C10 witness: a second response is tracked after the first one was done.
C10_Witness == response_in_progress /\ srv.open = 2 /\ current_response_id = 2

\* C11: a speech_started event handled while a response is in progress
\* leaves response_in_progress, awaiting_audio_delay,
\* response_cooldown_until, current_response_id and suppress_audio_output as
\* they were, sends nothing and cancels nothing, and a delta that would have
\* been rendered before the event is still rendered after it.
C11_SpeechStartedKeepsTurn ==
  [][(step'.event = "speech_started" /\ response_in_progress)
       => /\ UNCHANGED turnState
          /\ step'.sent = "none"
          /\ ~step'.cancel
          /\ Played.play = "write" => Played'.play = "write"]_vars

\* C11 witness: speech_started was handled in a turn whose deltas are
\* being rendered.
C11_Witness ==
  /\ step.event = "speech_started"
  /\ response_in_progress
  /\ ~awaiting_audio_delay
  /\ Played.play = "write"

\* C12: in a turn that is not canceled, the first delta starts a delay of at
\* least speak_delay_seconds and is written when the delay is over, no other
\* message (a later delta, response.done) is handled before that, and every
\* later delta is written in the step that handles it.
C12_DeltasRenderedInOrder ==
  [][/\ (step'.event = "delta" /\ awaiting_audio_delay)
          => /\ rx'.pc = "delay"
             /\ rx'.wake >= now + speak_delay_seconds
             /\ step'.play = "none"
     /\ (step'.event = "delta" /\ ~awaiting_audio_delay /\ ~suppress_audio_output
           /\ output_stream)
          => (step'.play = "write" /\ rx'.pc = "recv")
     /\ rx.pc = "delay"
          => /\ srv'.open = srv.open
             /\ srv'.next = srv.next
             /\ step'.event # "delta"
             /\ step'.play # "none" => (now >= rx.wake /\ rx'.pc = "recv"
                                         /\ ~awaiting_audio_delay')
             /\ (rx'.pc = "recv" /\ ~suppress_audio_output /\ output_stream)
                  => step'.play = "write"]_vars

\* C12 witness: a delta after the first one was written in the step that
\* handled it, in a turn that was not canceled.
C12_Witness ==
  /\ step.event = "delta"
  /\ step.play = "write"
  /\ TurnActive
  /\ ~srv.canceled
  /\ now > Epoch

\* C13: a delta handled while suppress_audio_output is true is skipped, and
\* nothing is written except by the step that handles a delta or ends its
\* speaking delay: a skipped delta is not kept for later.
C13_SuppressedDeltaDiscarded ==
  [][/\ (step'.play # "none" /\ suppress_audio_output) => step'.play = "skip"
     /\ step'.play = "write"
          => (step'.event = "delta" \/ (rx.pc = "delay" /\ rx'.pc = "recv"))]_vars

\* C13 witness: a delta was skipped while the output was suppressed, the
\* output stream being open.
C13_Witness == step.play = "skip" /\ suppress_audio_output /\ output_stream

\* C14: handling response.done of the active turn sets response_in_progress
\* false, clears current_response_id and suppress_audio_output, and sets
\* response_cooldown_until to the handling time plus 2 seconds.
C14_DoneMovesToIdle ==
  [][(srv.open # 0 /\ srv'.open = 0)
       => /\ ~response_in_progress'
          /\ current_response_id' = None
          /\ ~suppress_audio_output'
          /\ response_cooldown_until' = now + CooldownSeconds]_vars

\* C14 witness: the response.done of a second turn was handled at a later
\* time than the first.
C14_Witness ==
  /\ Dones = 2
  /\ ~TurnActive
  /\ ~response_in_progress
  /\ response_cooldown_until = now + CooldownSeconds
  /\ now > Epoch

\* C15: after an inbound message that is undecodable, not an object, or
\* makes a handler or callback raise, the receive loop is still running on
\* the connected session.
C15_MalformedEventKeepsSession ==
  step.event \in {"json", "payload", "callback"} => (rx.pc = "recv" /\ is_connected)

\* C16: once stream_audio_conversation has returned, the capture task is
\* finished and is_recording is false.
C16_NoActivityOutlivesSession ==
  rx.pc = "done" => (cap \in {"off", "done"} /\ ~is_recording)

\* C16 witness: the stream returned after the stop_conversation task closed
\* the session, and the capture task is finished.
C16_Witness ==
  /\ rx.pc = "done"
  /\ stopper = "done"
  /\ cap = "done"
  /\ step.sent = "none"
  /\ websocket = "none"

\* C17: after the websocket of a DailyConversation closed while
\* start_conversation is in its loop, the session can still make progress
\* towards its end: some step changes its state.
C17_DroppedConnectionEndsSession ==
  (daily.websocket = "closed" /\ daily.main = "loop")
    => ENABLED (NextDaily /\ daily' # daily)

\* C18: a transcript without end keyword delivered to on_transcription
\* starts exactly one queue_response/_generate_response task, and a
\* transcript with an end keyword starts none.
C18_OneRequestPerTranscript ==
  [][/\ step'.event = "talk"
          => \E i \in Calls :
               /\ gen[i].pc = "none"
               /\ gen'[i].pc = "ready"
               /\ \A j \in Calls \ {i} : gen'[j] = gen[j]
     /\ step'.event = "end" => gen' = gen]_vars

\* C18 witness: a transcript with an end keyword was delivered after one
\* without, whose task had been started.
C18_Witness ==
  /\ step.event = "end"
  /\ \E i \in Calls : gen[i].pc # "none"

\* The stop_conversation task exists: a transcript with an end keyword was
\* received.
EndReceived == stopper # "none"

\* running is false, the handler is stopped, run() has left its loop and
\* finalized once.
Ended ==
  /\ ~running
  /\ ~is_connected
  /\ websocket # "open"
  /\ rx.pc = "done"
  /\ app.pc = "finished"
  /\ app.finalized = 1

\* C19: once a transcript with an end keyword was received the session
\* eventually ends: running is false, the handler is stopped, run() has left
\* its streaming loop and _finalize_if_needed was executed, exactly once.
C19_EndKeywordEndsSession == (EndReceived ~> Ended) /\ [](app.finalized <= 1)

\* C19 witness: the session ended after an end keyword and its stop task
\* has finished too.
C19_Witness == Ended /\ stopper = "done"

\* C20: once a transcript with an emergency keyword arrived during a step
\* of the scripted sequence, no later step is executed and the result has
\* the status EMERGENCY.
C20_EmergencyAbortsScript ==
  checker.seen # 0
    => /\ checker.i = checker.seen
       /\ checker.pc = "done" => checker.status = "EMERGENCY"

\* The prompts of the five steps when no transcript arrives.
SilentScript == <<"greeting", "health", "mood", "daily_life", "closing">>

\* C21: the scripted sequence of SafetyChecker terminates: a started
\* sequence reaches its result.  The wait of a step (timeout 5 to 10 s) ends
\* only after a transcript newer than the prompt or after the timeout, a
\* step is followed by the next one, and with no user transcript all five
\* prompts are sent in order before the result is built.
C21_ScriptTerminates ==
  /\ (checker.pc # "new") ~> (checker.pc = "done")
  /\ [][(checker.pc = "waiting" /\ checker'.pc = "pause")
          => \/ Len(checker.user_responses) > checker.base
             \/ checker.waited >= StepTimeout(checker.i)]_vars
  /\ [][checker'.i # checker.i
          => /\ checker'.i = checker.i + 1
             /\ checker'.pc = "waiting"
             /\ Len(checker'.ai_responses) = checker'.i]_vars
  /\ [](checker.pc = "waiting" => StepTimeout(checker.i) \in 5..10)
  /\ [](checker.pc = "done" /\ checker.arrived = <<>>
          => /\ checker.i = ScriptSteps
             /\ checker.ai_responses = SilentScript
             /\ checker.result.built)

\* C21 witness: all five steps timed out without a transcript and the
\* result was built.
C21_Witness ==
  /\ checker.pc = "done"
  /\ checker.arrived = <<>>
  /\ checker.i = ScriptSteps
  /\ checker.result.built


\* C22: when run() of RealtimeCareApp has returned, whether the session
\* ended by its end command, by a dropped connection or because the
\* transport could not be established, _finalize_if_needed was called.
C22_FatalEndStillFinalizes ==
  app.pc \in {"finished", "returned"} => app.finalized >= 1

\* C23 as stated: every transcription.failed event sends exactly one
\* response.create with the fallback instructions and the session keeps
\* receiving.
C23_OneFallbackPerFailure ==
  step.event = "failed" => step.sent = "fallback" /\ Receiving

\* C23: a transcription.failed event never ends the session; it sends one
\* response.create with the fallback instructions when no response is in
\* progress and the connection is open, and nothing otherwise.
C23_FallbackUnlessInProgress ==
  step.event = "failed"
    => /\ Receiving
       /\ step.sent \in {"fallback", "none"}
       /\ step.sent = "fallback" <=> (~response_in_progress /\ websocket = "open")

\* C23 witness: a failure event handled while no response was in progress
\* sent the fallback request, and the handler is still receiving.
C23_Witness ==
  /\ step.event = "failed"
  /\ step.sent = "fallback"
  /\ ~response_in_progress
  /\ Receiving

\* C24: the user-side transcript log is append-only and chronological
\* during a session: a step that delivers a transcript appends it at the end
\* of user_messages (RealtimeCareApp) or user_responses (SafetyChecker), no
\* other step of the session changes the log, and the user_responses of the
\* result built at the end are the transcripts in arrival order.
C24_UserLogAppendOnly ==
  /\ [][/\ step'.event \in Texts
             => app'.user_messages = Append(app.user_messages, step'.event)
        /\ step'.event \notin Texts => app'.user_messages = app.user_messages
        /\ checker'.arrived # checker.arrived /\ checker'.arrived # <<>>
             => checker'.user_responses =
                  Append(checker.user_responses,
                         checker'.arrived[Len(checker'.arrived)])
        /\ checker'.arrived = checker.arrived /\ checker.pc \notin {"new", "done"}
             => checker'.user_responses = checker.user_responses]_vars
  /\ [](app.result.built
          => Deref(app.result.user_responses, app.user_messages) = app.user_messages)
  /\ [](checker.pc = "done"
          => Deref(checker.result.user_responses, checker.user_responses)
               = checker.arrived)

\* C24 witness: a safety check ended with two different transcripts in its
\* result, in the order of their arrival.
C24_Witness ==
  /\ checker.pc = "done"
  /\ Len(checker.arrived) >= 2
  /\ checker.arrived[1] # checker.arrived[2]
  /\ checker.result.user_responses.val = checker.arrived

\* What a reader of a ConversationResult sees: its two transcript lists,
\* read through the references it holds, and its classification.
ResultView(result, users, ais) ==
  IF result.built
    THEN <<Deref(result.user_responses, users), Deref(result.ai_responses, ais),
           result.safety_status, result.keywords, result.summary>>
    ELSE <<>>

CheckerResult == ResultView(checker.result, checker.user_responses, checker.ai_responses)

CareResult == ResultView(app.result, app.user_messages, app.ai_messages)

\* C25: a ConversationResult is a snapshot: once built, its user_responses,
\* ai_responses, safety_status, keywords and summary are the same after
\* every later step (transcripts appended to the live logs, logs cleared by
\* the next safety check), until the next result is built.
C25_ResultIsSnapshot ==
  [][/\ checker.result.built /\ ~(checker.pc # "done" /\ checker'.pc = "done")
          => CheckerResult' = CheckerResult
     /\ app.result.built => CareResult' = CareResult]_vars

\* C25 witness: after a result with transcripts was built, a further safety
\* check cleared the live logs and appended a transcript to them; the
\* result still holds the lists it was built with.
C25_Witness ==
  /\ checker.result.built
  /\ checker.runs = 2
  /\ checker.arrived # <<>>
  /\ checker.result.user_responses.val # <<>>
  /\ CheckerResult[1] # checker.user_responses
  /\ CheckerResult[2] # checker.ai_responses

Capturing ==
  /\ cap = "running"
  /\ is_connected
  /\ is_recording
  /\ input_stream
  /\ websocket = "open"

\* C26: a non-empty chunk read by the capture loop on an open connection is
\* sent, in the step that read it, as one input_audio_buffer.append and
\* nothing else; and while an audio delta waits out the speaking delay or a
\* request sleeps on the cooldown the capture loop can read and send its
\* next chunk.
C26_CaptureSendsEveryChunk ==
  /\ step.event = "chunk" /\ websocket = "open"
       => /\ step.sent = "append"
          /\ step.play = "none"
          /\ ~step.cancel
  /\ step.sent = "append" => step.event = "chunk"
  /\ Capturing /\ (rx.pc = "delay" \/ \E i \in Calls : gen[i].pc = "sleeping")
       => ENABLED (CaptureChunk(FALSE) /\ step'.sent = "append")

\* C26 witness: a chunk was sent while an audio delta was waiting out the
\* speaking delay and a request was sleeping on the cooldown.
C26_Witness ==
  /\ step.event = "chunk"
  /\ step.sent = "append"
  /\ rx.pc = "delay"
  /\ \E i \in Calls : gen[i].pc = "sleeping"


\* C27: _cancel_active_response called while a turn is in progress sets
\* suppress_audio_output, sends response.cancel exactly when
\* current_response_id is known, and leaves response_in_progress and
\* awaiting_audio_delay false, whatever the state of the connection.
C27_OptimisticCancel ==
  [][(step'.cancel /\ response_in_progress)
       => /\ suppress_audio_output'
          /\ (step'.sent = "cancel") <=> (current_response_id # None)
          /\ ~response_in_progress'
          /\ ~awaiting_audio_delay']_vars


\* C29: announce_time announces at most once between two resets: a call
\* with announcement_made false returns the time message of the clock and
\* sets the flag, a call with the flag set returns None and announces
\* nothing, and reset_announcement clears the flag so that the next call
\* announces again.
C29_AnnouncesOncePerReset ==
  /\ [](announcer.count <= 1)
  /\ [](announcer.op = "reset"
          => ENABLED (announce_time(7, 30)
                        /\ announcer'.returned = get_time_message(7, 30)))
  /\ [][/\ announcer'.op = "announce" /\ ~announcer.announcement_made
             => /\ announcer'.returned.kind = "message"
                /\ \E hour \in Hours, minute \in Minutes :
                     announcer'.returned = get_time_message(hour, minute)
                /\ announcer'.announcement_made
                /\ announcer'.count = announcer.count + 1
        /\ announcer'.op = "announce" /\ announcer.announcement_made
             => /\ announcer'.returned = ReturnedNone
                /\ announcer'.announcement_made
                /\ announcer'.count = announcer.count
        /\ announcer'.op = "reset"
             => /\ ~announcer'.announcement_made
                /\ announcer'.count = 0]_vars

\* C29 witness: a call after the announcement returned None, the one
\* announcement since the last reset still counted.
C29_Witness ==
  /\ announcer.op = "announce"
  /\ announcer.returned = ReturnedNone
  /\ announcer.announcement_made
  /\ announcer.count = 1


\* C30: a scheduled check is executed when its time fires only while it is
\* enabled, and a check that is enabled (again) has a job that executes it
\* when its time fires, after any sequence of add, remove, enable and
\* disable operations.
C30_DisabledIsNotExecuted ==
  \A key \in CheckKeys :
    LET mine == {k \in 1..Len(sched.scheduled_checks) :
                   sched.scheduled_checks[k].key = key}
    IN  /\ sched.executed = key
             => \E k \in mine : sched.scheduled_checks[k].enabled
        /\ (mine # {} /\ \A k \in mine : sched.scheduled_checks[k].enabled)
             => sched.jobs[key] > 0


\* C31: with the manager's callback installed, a scheduled check that was
\* executed has a SafetyChecker run for its id: one is running, or one has
\* completed and on_check_complete was called for it.
C31_FiredCheckRunsChecker ==
  \A key \in CheckKeys :
    sched.executed = key
      => (key \in mgr.active_checks \/ key \in mgr.completed)

\* C32: an id has at most one running handler, which is the one
\* active_checks stands for; a call for an id already in active_checks
\* returns without creating a checker and leaves the entry; and the finish
\* of a check, by return or by exception, removes its entry.
C32_OneCheckPerId ==
  /\ [](\A key \in CheckKeys :
          /\ Cardinality({c \in HandlerCalls :
                 mgr.handlers[c] = [pc |-> "checking", id |-> key]}) <= 1
          /\ key \in mgr.active_checks
               <=> \E c \in HandlerCalls :
                     mgr.handlers[c] = [pc |-> "checking", id |-> key])
  /\ [][\A c \in HandlerCalls :
          /\ (mgr.handlers[c].pc = "none" /\ mgr'.handlers[c].pc # "none"
                /\ mgr'.handlers[c].id \in mgr.active_checks)
               => /\ mgr'.handlers[c].pc = "returned"
                  /\ mgr'.started = mgr.started
                  /\ mgr'.active_checks = mgr.active_checks
          /\ (mgr.handlers[c].pc = "checking" /\ mgr'.handlers[c].pc # "checking")
               => /\ mgr'.handlers[c].pc \in {"done", "raised"}
                  /\ mgr.handlers[c].id \notin mgr'.active_checks]_vars

\* C32 witness: a second call for a running id has returned while the first
\* is still checking.
C32_Witness ==
  /\ mgr.handlers[1] = [pc |-> "checking", id |-> "10:00"]
  /\ mgr.handlers[2] = [pc |-> "returned", id |-> "10:00"]
  /\ "10:00" \in mgr.active_checks


\* C33: after every generate_response call has returned, conversation_history
\* holds at most 20 entries.
C33_HistoryAtMostTwenty ==
  chat.returned # "none" => Len(chat.conversation_history) <= HistoryLimit


\* C34: get_recent_conversations returns every conversation that
\* save_conversation has committed and that lies in the day window, whatever
\* ConversationDatabase instances were constructed on the path in between.
C34_SavedConversationPersists ==
  db.op = "get"
    => \A s \in db.saved :
         InWindow(s.timestamp, db.day, db.days)
           => \E row \in db.returned : row.conv = s.conv


\* C35: a safety check that the emergency scan ended before its last step
\* returns a result with safety_status EMERGENCY and needs_followup true;
\* and in every result built by SafetyChecker or RealtimeCareApp,
\* needs_followup is true exactly for NEEDS_ATTENTION and EMERGENCY, and
\* the status is UNKNOWN exactly when the result has no user transcript.
C35_FollowupMatchesStatus ==
  /\ checker.pc = "done" /\ checker.i < ScriptSteps
       => /\ checker.result.safety_status = "EMERGENCY"
          /\ checker.result.needs_followup
  /\ checker.result.built
       => /\ checker.result.needs_followup
               <=> checker.result.safety_status \in {"NEEDS_ATTENTION", "EMERGENCY"}
          /\ checker.result.safety_status = "UNKNOWN"
               <=> checker.result.user_responses.val = <<>>
          /\ checker.result.safety_status \in {"UNKNOWN", "SAFE", "NEEDS_ATTENTION", "EMERGENCY"}
  /\ app.result.built
       => /\ app.result.needs_followup
               <=> app.result.safety_status \in {"NEEDS_ATTENTION", "EMERGENCY"}
          /\ app.result.safety_status = "UNKNOWN"
               <=> app.result.user_responses.val = <<>>
          /\ app.result.safety_status \in {"UNKNOWN", "SAFE", "NEEDS_ATTENTION", "EMERGENCY"}

\* C35 witness: the scan ended a safety check at its second step, after a
\* transcript with an emergency keyword.
C35_Witness ==
  /\ checker.pc = "done"
  /\ checker.i = 2
  /\ checker.result.safety_status = "EMERGENCY"
  /\ checker.result.needs_followup


\* C36: should_notify returns true for every result whose safety_status is
\* EMERGENCY or NEEDS_ATTENTION or whose needs_followup is true, whatever
\* the emotion analysis; it returns false exactly when the status is
\* neither, needs_followup is false, the category is none of negative,
\* anxious, depressed and the overall score is not below -0.5.
C36_NotifyWhenAnyReason ==
  notifier.called
    => /\ (notifier.safety_status \in {"EMERGENCY", "NEEDS_ATTENTION"}
             \/ notifier.needs_followup)
            => notifier.returned[1]
       /\ ~notifier.returned[1]
            <=> /\ notifier.safety_status \notin {"EMERGENCY", "NEEDS_ATTENTION"}
                /\ ~notifier.needs_followup
                /\ notifier.category \notin {"negative", "anxious", "depressed"}
                /\ ~(notifier.overall_score < 0 - LowScoreTenths)

\* C36 witness: a safe result with a neutral analysis whose score is exactly
\* -0.5 is not notified.
C36_Witness ==
  /\ notifier.called
  /\ notifier.safety_status = "SAFE"
  /\ notifier.category = "neutral"
  /\ notifier.overall_score = 0 - LowScoreTenths
  /\ ~notifier.needs_followup
  /\ notifier.returned = <<FALSE, <<>>>>


\* C37: in the finalization of a result whose safety_status is EMERGENCY,
\* the email notification step is reached whatever became of the database
\* save and of the sheet record.
C37_EmailAttemptedAfterFailure ==
  fin.done /\ fin.safety_status = "EMERGENCY" => fin.email # "not_reached"


\* C38: at most one scheduler thread is in the pending-job loop at any
\* time, for any sequence of start and stop calls.
C38_OneSchedulerThread ==
  Cardinality({t \in 1..Len(sched.threads) : sched.threads[t] = "jobs"}) <= 1


\* A stop_conversation call has run to its end.
StopCompleted == stopper = "done" \/ rx.pc = "done"

\* C39: after a stop_conversation call has completed, no step sends a
\* command, reads a chunk from the input stream or writes to the output
\* stream: the request that slept on the cooldown, the capture loop and the
\* audio delta that waited out the speaking delay end without doing so.
C39_NothingAfterStop ==
  [][StopCompleted
       => /\ step'.sent = "none"
          /\ step'.play # "write"
          /\ step'.event # "chunk"
          /\ (gen[1].pc = "sleeping" /\ gen'[1].pc # "sleeping") => gen'[1].pc = "failed"
          /\ (cap = "running" /\ cap' # "running") => cap' = "done"]_vars

\* C39 witness: after the stop task completed, the request that slept on the
\* cooldown has failed to send, the capture loop is over, and the audio delta
\* that waited out the speaking delay found no output stream.
C39_Witness ==
  /\ stopper = "done"
  /\ gen[1].pc = "failed"
  /\ cap = "done"
  /\ step.play = "nostream"

\* C40: a stop_conversation call closes the audio streams only when it
\* finds them open, so a call after a completed one, or one started while
\* another is suspended closing the websocket, closes nothing again; and
\* when a call completes, is_connected and is_recording are false and
\* input_stream, output_stream and websocket are None.
C40_StopIsIdempotent ==
  [][/\ step'.event = "close" => (input_stream /\ output_stream)
     /\ (stopper = "ready" /\ stopper' # "ready") \/ (rx.pc \in {"recv", "delay"}
                                                       /\ rx'.pc \in {"closing", "done"})
          => /\ ~is_connected' /\ ~is_recording'
             /\ ~input_stream' /\ ~output_stream'
             /\ (step'.event = "close") <=> (input_stream \/ output_stream)
     /\ (stopper # "done" /\ stopper' = "done") \/ (rx.pc # "done" /\ rx'.pc = "done")
          => /\ ~is_connected' /\ ~is_recording'
             /\ ~input_stream' /\ ~output_stream'
             /\ websocket' = "none"]_vars

\* C40 witness: the stop task and the stop call of the ended stream were
\* both suspended closing the websocket; the stop task has completed and the
\* other call has not yet.
C40_Witness ==
  /\ stopper = "done"
  /\ rx.pc = "closing"
  /\ websocket = "none"
  /\ ~is_connected /\ ~is_recording /\ ~input_stream /\ ~output_stream

====
